---- MODULE Spec2Model ----
(***************************************************************************)
(* Model of the per-user agent sandbox lifecycle and interactive-access    *)
(* gateway of clawedin: the namespace resolver (identity/kube.py), the     *)
(* cluster reconciler, agent lifecycle and GUI gateway (identity/views.py) *)
(* and the interactive terminal bridge (identity/consumers.py).            *)
(*                                                                         *)
(* Text is modelled as a sequence of one-character strings.  A few         *)
(* characters outside ASCII are written as named tokens: "E_ACUTE" is the  *)
(* letter e with an acute accent, "CJK" is an ideograph.                   *)
(***************************************************************************)
EXTENDS Integers, Sequences, FiniteSets, TLC

(***************************************************************************)
(* Bounds of the model.                                                    *)
(***************************************************************************)
MaxTail == 3
MaxUserId == 3

(***************************************************************************)
(* Program constants.                                                      *)
(***************************************************************************)
NsMaxLen == 63

VARIABLES
    cfg,            \* settings and environment of the running server
    objs,           \* the objects held by the cluster API server
    req,            \* the request (or helper call) handled last
    calls,          \* the cluster API calls that request issued, in order
    resp,           \* the outcome of that request
    saved_keys,     \* User.openai_api_key of each user that has saved one
    clock,          \* timezone.now(), counted in launches
    pod_gen,        \* number of pods the Deployment controller has created
    ns_username,    \* resolve_agent_namespace: argument username
    ns_user_id,     \* resolve_agent_namespace: argument user_id
    ns_env,         \* os.environ.get("AGENT_NAMESPACE", "")
    ns_result,      \* value returned by resolve_agent_namespace, or NoResult
    ns_pc,          \* "call" before the call, "done" after it
    px_in,          \* argument of a gateway text function
    px_out,         \* the value it returned, or NoResult
    px_pc,          \* "call" before the call, "done" after it
    tm_conn,        \* the terminal websocket: its state, its caller, frames received
    tm_pc,          \* the consumer's handler thread: "idle" or a position in disconnect
    exec_stream,    \* self.exec_stream: "unset", "None" or "stream"
    reader_thread,  \* self.reader_thread: "unset", "None" or the thread's position
    ws,             \* the exec stream's client end
    shell,          \* the shell at the pod's end of the exec stream
    rd,             \* _read_loop's locals stdout and stderr
    tm_sent         \* number of payloads _emit has sent to the client

nsVars == <<ns_username, ns_user_id, ns_env, ns_result, ns_pc>>

pxVars == <<px_in, px_out, px_pc>>

clVars == <<cfg, objs, req, calls, resp, saved_keys, clock, pod_gen>>

tmVars == <<tm_conn, tm_pc, exec_stream, reader_thread, ws, shell, rd, tm_sent>>

fnVars == <<nsVars, pxVars, tmVars>>

vars == <<fnVars, clVars>>

NoResult == [namespace |-> <<>>, forced |-> FALSE, returned |-> FALSE]

NoReq == [op |-> "none"]
NoResp == [kind |-> "none"]
NoCfg == [env_ns |-> <<>>]

\* The variables of the namespace resolver, at rest.
NsIdle ==
    /\ ns_username = <<>>
    /\ ns_user_id = 1
    /\ ns_env = <<>>
    /\ ns_result = NoResult
    /\ ns_pc = "idle"

\* The variables of the gateway's text functions, at rest.
PxIdle ==
    /\ px_in = <<>>
    /\ px_out = <<>>
    /\ px_pc = "idle"

NoConn ==
    [state |-> "none", user |-> <<>>, kind |-> "none", read |-> "none",
     bash |-> "none", sh |-> "none", accepted |-> FALSE, received |-> 0]

NoStream ==
    [open |-> FALSE, command |-> "None", peer_closed |-> FALSE, stdin |-> <<>>,
     wire_out |-> 0, wire_err |-> 0, out |-> 0, err |-> 0]

NoShell == [alive |-> FALSE, left |-> 0]

NoLocals == [stdout |-> 0, stderr |-> 0]

\* The variables of the terminal bridge, at rest.
TmIdle ==
    /\ tm_conn = NoConn
    /\ tm_pc = "idle"
    /\ exec_stream = "unset"
    /\ reader_thread = "unset"
    /\ ws = NoStream
    /\ shell = NoShell
    /\ rd = NoLocals
    /\ tm_sent = 0

\* The variables of the cluster and of the request handlers, at rest.
ClIdle ==
    /\ cfg = NoCfg
    /\ objs = {}
    /\ req = NoReq
    /\ calls = <<>>
    /\ resp = NoResp
    /\ saved_keys = {}
    /\ clock = 0
    /\ pod_gen = 0

(***************************************************************************)
(* Text helpers (Python str operations).                                   *)
(***************************************************************************)
RECURSIVE Repeat(_, _)
Repeat(c, n) == IF n = 0 THEN <<>> ELSE <<c>> \o Repeat(c, n - 1)

\* s[:n]
Take(s, n) == IF Len(s) <= n THEN s ELSE SubSeq(s, 1, n)

\* s[n:]
Drop(s, n) == IF Len(s) <= n THEN <<>> ELSE SubSeq(s, n + 1, Len(s))

\* s.startswith(p)
StartsWith(s, p) == Len(p) <= Len(s) /\ SubSeq(s, 1, Len(p)) = p

RECURSIVE LStrip(_, _)
LStrip(s, chars) ==
    IF s # <<>> /\ Head(s) \in chars THEN LStrip(Tail(s), chars) ELSE s

RECURSIVE RStrip(_, _)
RStrip(s, chars) ==
    IF s # <<>> /\ s[Len(s)] \in chars
    THEN RStrip(SubSeq(s, 1, Len(s) - 1), chars)
    ELSE s

\* s.strip(chars)
Strip(s, chars) == RStrip(LStrip(s, chars), chars)

Whitespace == {" "}

RECURSIVE IntToStr(_)
IntToStr(n) ==
    LET digit == <<"0", "1", "2", "3", "4", "5", "6", "7", "8", "9">>
    IN  IF n < 10 THEN <<digit[n + 1]>>
        ELSE IntToStr(n \div 10) \o <<digit[(n % 10) + 1]>>

(***************************************************************************)
(* django.utils.text.slugify(value), allow_unicode=False:                  *)
(*   NFKD-normalise and drop what is not ASCII; lower-case; delete every   *)
(*   character that is not a word character, whitespace or a hyphen;       *)
(*   replace each run of hyphens and whitespace by one hyphen; strip       *)
(*   leading and trailing hyphens and underscores.                         *)
(***************************************************************************)
AsciiFold(c) ==
    CASE c = "E_ACUTE" -> <<"e">>
      [] c = "CJK" -> <<>>
      [] OTHER -> <<c>>

UpperLetters ==
    <<"A", "B", "C", "D", "E", "F", "G", "H", "I", "J", "K", "L", "M",
      "N", "O", "P", "Q", "R", "S", "T", "U", "V", "W", "X", "Y", "Z">>

LowerLetterSeq ==
    <<"a", "b", "c", "d", "e", "f", "g", "h", "i", "j", "k", "l", "m",
      "n", "o", "p", "q", "r", "s", "t", "u", "v", "w", "x", "y", "z">>

LowerOf ==
    [c \in {UpperLetters[i] : i \in 1..Len(UpperLetters)} |->
        LowerLetterSeq[CHOOSE i \in 1..Len(UpperLetters) : UpperLetters[i] = c]]

LowerChar(c) == IF c \in DOMAIN LowerOf THEN LowerOf[c] ELSE c

LowerLetters ==
    {"a", "b", "c", "d", "e", "f", "g", "h", "i", "j", "k", "l", "m",
     "n", "o", "p", "q", "r", "s", "t", "u", "v", "w", "x", "y", "z"}

UpperChar(c) ==
    IF c \in LowerLetters
    THEN UpperLetters[CHOOSE i \in 1..Len(LowerLetterSeq) : LowerLetterSeq[i] = c]
    ELSE c

UpperStr(s) == [i \in 1..Len(s) |-> UpperChar(s[i])]

DigitChars == {"0", "1", "2", "3", "4", "5", "6", "7", "8", "9"}

\* \w after lower-casing an ASCII string
WordChars == LowerLetters \cup DigitChars \cup {"_"}

NonAscii == {"E_ACUTE", "CJK"}

RECURSIVE FoldEach(_)
FoldEach(s) ==
    IF s = <<>> THEN <<>> ELSE AsciiFold(Head(s)) \o FoldEach(Tail(s))

\* unicodedata.normalize("NFKD", s).encode("ascii", "ignore").decode("ascii")
FoldAscii(s) ==
    IF \A i \in 1..Len(s) : s[i] \notin NonAscii THEN s ELSE FoldEach(s)

\* s.lower()
LowerStr(s) == [i \in 1..Len(s) |-> LowerChar(s[i])]

RECURSIVE DropRepeatedHyphens(_)
DropRepeatedHyphens(s) ==
    IF s = <<>> THEN <<>>
    ELSE IF Head(s) = "-"
         THEN <<"-">> \o DropRepeatedHyphens(LStrip(s, {"-"}))
         ELSE <<Head(s)>> \o DropRepeatedHyphens(Tail(s))

\* re.sub(r"[-\s]+", "-", s)
CollapseRuns(s) ==
    LET hyphened == [i \in 1..Len(s) |-> IF s[i] \in Whitespace THEN "-" ELSE s[i]]
    IN  IF \A i \in 1..(Len(s) - 1) : ~(hyphened[i] = "-" /\ hyphened[i + 1] = "-")
        THEN hyphened
        ELSE DropRepeatedHyphens(hyphened)

\* the characters that re.sub(r"[^\w\s-]", "", s) keeps
SlugKept == WordChars \cup Whitespace \cup {"-"}

slugify(value) ==
    LET ascii == FoldAscii(value)
        lowered == LowerStr(ascii)
        kept == SelectSeq(lowered, LAMBDA c : c \in SlugKept)
    IN  Strip(CollapseRuns(kept), {"-", "_"})

(***************************************************************************)
(* identity/kube.py                                                        *)
(***************************************************************************)
UserPrefix == <<"u", "s", "e", "r", "-">>

normalize_namespace_untruncated(username, user_id) ==
    LET slug == slugify(username)
        namespace == IF slug = <<>> THEN UserPrefix \o IntToStr(user_id) ELSE slug
    IN  namespace

normalize_namespace_unstripped(username, user_id) ==
    LET slug == slugify(username)
        namespace == IF slug = <<>> THEN UserPrefix \o IntToStr(user_id) ELSE slug
    IN  Take(namespace, NsMaxLen)

normalize_namespace(username, user_id) ==
    LET slug == slugify(username)
        namespace == IF slug = <<>> THEN UserPrefix \o IntToStr(user_id) ELSE slug
        cut == Strip(Take(namespace, NsMaxLen), {"-"})
    IN  IF cut = <<>> THEN UserPrefix \o IntToStr(user_id) ELSE cut

resolve_agent_namespace(username, user_id, env) ==
    LET forced == Strip(env, Whitespace)
    IN  IF forced # <<>>
        THEN [namespace |-> forced, forced |-> TRUE, returned |-> TRUE]
        ELSE [namespace |-> normalize_namespace(username, user_id),
              forced |-> FALSE, returned |-> TRUE]

S_agent_gui == <<"a", "g", "e", "n", "t", "-", "g", "u", "i">>
S_agent_gui_ingress == S_agent_gui \o <<"-", "i", "n", "g", "r", "e", "s", "s">>
S_agent_gui_mw == S_agent_gui \o <<"-", "m", "w">>

normalize_k8s_name(value, fallback) ==
    LET slug == slugify(value)
        name == IF slug = <<>> THEN fallback ELSE slug
        cut == Strip(Take(name, NsMaxLen), {"-"})
    IN  IF cut = <<>> THEN fallback ELSE cut

gui_service_name(pod_name) ==
    normalize_k8s_name(S_agent_gui \o <<"-">> \o pod_name, S_agent_gui)

gui_ingress_name(pod_name) ==
    normalize_k8s_name(S_agent_gui_ingress \o <<"-">> \o pod_name, S_agent_gui_ingress)

gui_middleware_name(pod_name) ==
    normalize_k8s_name(S_agent_gui_mw \o <<"-">> \o pod_name, S_agent_gui_mw)

(***************************************************************************)
(* The cluster API server, as the kubernetes client sees it.  An object is *)
(* a record; cluster-scoped objects have the empty namespace.  A call      *)
(* returns a status; the client raises ApiException for every status that  *)
(* is not a success.  ctx.fault numbers the call of the current request    *)
(* that the server answers with an error of its own (0: none).             *)
(***************************************************************************)
Obj(kind, group, ns, name, data) ==
    [kind |-> kind, group |-> group, ns |-> ns, name |-> name, data |-> data]

Find(os, kind, group, ns, name) ==
    {o \in os : o.kind = kind /\ o.group = group /\ o.ns = ns /\ o.name = name}

NsExists(os, ns) == Find(os, "namespace", "", <<>>, ns) # {}

\* Custom resources are served only for the API groups whose definition
\* (a "crd" object named after the group) is installed.
Served(os, kind, group) ==
    kind = "middleware" => \E o \in os : o.kind = "crd" /\ o.group = group

OkStatus == {"200", "201"}

Ctx(os, fault) ==
    [objs |-> os, calls |-> <<>>, fault |-> fault, exc |-> "ok", got |-> {}]

\* F applied to the value of v, with v evaluated once.
Bind(v, F(_)) == CHOOSE r \in {F(x) : x \in {v}} : TRUE

Faulty(ctx) == ctx.fault = Len(ctx.calls) + 1

Answer(ctx, verb, kind, group, ns, name, status, os, got) ==
    [objs |-> os,
     calls |-> Append(ctx.calls, [verb |-> verb, kind |-> kind, group |-> group,
                                  ns |-> ns, name |-> name, status |-> status]),
     fault |-> ctx.fault,
     exc |-> IF status \in OkStatus THEN "ok" ELSE status,
     got |-> got]

\* What a helper returns: the context with its exception (or "ok").
Raise(ctx, exc) == [ctx EXCEPT !.exc = exc]

\* A patch sets the fields the body names and keeps the others.
Merge(old, body) ==
    [f \in DOMAIN old \cup DOMAIN body |->
        IF f \in DOMAIN body THEN body[f] ELSE old[f]]

\* apps/v1: the selector of a Deployment cannot be changed.
Immutable(kind, old, body) ==
    /\ kind = "deployment"
    /\ "selector" \in DOMAIN old
    /\ "selector" \in DOMAIN body
    /\ old.selector # body.selector

ApiRead(ctx0, kind, group, ns, name) ==
    Bind(ctx0, LAMBDA ctx :
        LET found == Find(ctx.objs, kind, group, ns, name)
            status == IF Faulty(ctx) THEN "500"
                      ELSE IF ~Served(ctx.objs, kind, group) \/ found = {} THEN "404"
                      ELSE "200"
        IN  Answer(ctx, "read", kind, group, ns, name, status, ctx.objs,
                   IF status = "200" THEN found ELSE {}))

ApiCreate(ctx0, kind, group, ns, name, data) ==
    Bind(ctx0, LAMBDA ctx :
        LET found == Find(ctx.objs, kind, group, ns, name)
            status == IF Faulty(ctx) THEN "500"
                      ELSE IF ~Served(ctx.objs, kind, group) THEN "404"
                      ELSE IF ns # <<>> /\ ~NsExists(ctx.objs, ns) THEN "404"
                      ELSE IF found # {} THEN "409"
                      ELSE "201"
        IN  Answer(ctx, "create", kind, group, ns, name, status,
                   IF status = "201"
                   THEN ctx.objs \cup {Obj(kind, group, ns, name, data)}
                   ELSE ctx.objs,
                   {}))

ApiPatch(ctx0, kind, group, ns, name, body) ==
    Bind(ctx0, LAMBDA ctx :
        LET found == Find(ctx.objs, kind, group, ns, name)
            status == IF Faulty(ctx) THEN "500"
                      ELSE IF ~Served(ctx.objs, kind, group) \/ found = {} THEN "404"
                      ELSE IF \E o \in found : Immutable(kind, o.data, body) THEN "422"
                      ELSE "200"
        IN  Answer(ctx, "patch", kind, group, ns, name, status,
                   IF status = "200"
                   THEN (ctx.objs \ found) \cup
                        {Obj(kind, group, ns, name, Merge(o.data, body)) : o \in found}
                   ELSE ctx.objs,
                   {}))

ApiDelete(ctx0, kind, group, ns, name) ==
    Bind(ctx0, LAMBDA ctx :
        LET found == Find(ctx.objs, kind, group, ns, name)
            status == IF Faulty(ctx) THEN "500"
                      ELSE IF ~Served(ctx.objs, kind, group) \/ found = {} THEN "404"
                      ELSE "200"
        IN  Answer(ctx, "delete", kind, group, ns, name, status,
                   IF status = "200" THEN ctx.objs \ found ELSE ctx.objs,
                   {}))

\* label_selector app=openclaw-agent,owner=<username>
OwnedBy(username, o) ==
    o.data.labels.app = "openclaw-agent" /\ o.data.labels.owner = username

\* The selectors the code lists pods with: none, the owner's label
\* selector, and the field selector metadata.name=<pod_name>.
NoSelector == [kind |-> "none"]
LabelSelector(owner) == [kind |-> "label", owner |-> owner]
FieldSelector(name) == [kind |-> "field", name |-> name]

Selects(selector, o) ==
    CASE selector.kind = "none" -> TRUE
      [] selector.kind = "label" -> OwnedBy(selector.owner, o)
      [] selector.kind = "field" -> o.name = selector.name

\* list_namespaced_pod / list_pod_for_all_namespaces (ns = <<>>), filtered by
\* a label or a field selector.  A namespace that does not exist lists empty.
ApiListPods(ctx0, ns, selector) ==
    Bind(ctx0, LAMBDA ctx :
        LET status == IF Faulty(ctx) THEN "500" ELSE "200"
        IN  Answer(ctx, "list", "pod", "", ns, <<>>, status, ctx.objs,
                   IF status = "200"
                   THEN {o \in ctx.objs : /\ o.kind = "pod"
                                          /\ (ns = <<>> \/ o.ns = ns)
                                          /\ Selects(selector, o)}
                   ELSE {}))

(***************************************************************************)
(* identity/views.py: the reconciler's helpers.                            *)
(***************************************************************************)
UpsertCreateOnly(ctx, kind, group, ns, name, body) ==
    ApiCreate(ctx, kind, group, ns, name, body)

UpsertCreatingOnAnyError(ctx, kind, group, ns, name, body) ==
    Bind(ApiRead(ctx, kind, group, ns, name), LAMBDA r :
        Bind(IF r.exc = "ok" THEN ApiPatch(r, kind, group, ns, name, body) ELSE r,
             LAMBDA tried :
                IF tried.exc # "ok"
                THEN ApiCreate(Raise(tried, "ok"), kind, group, ns, name, body)
                ELSE tried))

\* try: read; patch / except: create on 404, re-raise otherwise.  The
\* except clause covers the patch as well as the read.
Upsert(ctx, kind, group, ns, name, body) ==
    Bind(ApiRead(ctx, kind, group, ns, name), LAMBDA r :
        Bind(IF r.exc = "ok" THEN ApiPatch(r, kind, group, ns, name, body) ELSE r,
             LAMBDA tried :
                IF tried.exc = "404"
                THEN ApiCreate(tried, kind, group, ns, name, body)
                ELSE tried))

_upsert_service(ctx, ns, name, body) == Upsert(ctx, "service", "", ns, name, body)

_upsert_endpoints(ctx, ns, name, body) == Upsert(ctx, "endpoints", "", ns, name, body)

_upsert_ingress(ctx, ns, name, body) == Upsert(ctx, "ingress", "", ns, name, body)

_upsert_custom_object(ctx, group, ns, name, body) ==
    Upsert(ctx, "middleware", group, ns, name, body)

_delete_custom_object(ctx, group, ns, name) ==
    Bind(ApiDelete(ctx, "middleware", group, ns, name), LAMBDA d :
        IF d.exc = "404" THEN Raise(d, "ok") ELSE d)

(***************************************************************************)
(* identity/views.py: settings-derived paths and hosts.                    *)
(***************************************************************************)
GuiProxyPort == 18790

S_agents_gui == <<"/", "a", "g", "e", "n", "t", "s", "/", "g", "u", "i">>

MiddlewareGroups == <<"traefik.io", "traefik.containo.us">>

_gui_path_prefix(c) ==
    LET raw == IF c.path_prefix = <<>> THEN S_agents_gui ELSE c.path_prefix
        prefix == IF StartsWith(raw, <<"/">>) THEN raw ELSE <<"/">> \o raw
    IN  RStrip(prefix, {"/"})

_gui_path_for_pod(c, pod_name) ==
    _gui_path_prefix(c) \o <<"/">> \o pod_name \o <<"/">>

\* The empty text stands for None.
_gui_host_for_pod(c, pod_name) ==
    LET suffix == LowerStr(Strip(c.host_suffix, Whitespace))
    IN  IF suffix # <<>> THEN pod_name \o <<".">> \o suffix
        ELSE LowerStr(Strip(c.ingress_host, Whitespace))

(***************************************************************************)
(* urllib.parse.urlsplit and urlunsplit, as _rewrite_location_header uses  *)
(* them, on text without brackets, control characters or whitespace.       *)
(***************************************************************************)
\* The index of the first element of s that is in chars, or Len(s) + 1.
FirstOf(s, chars) ==
    LET hits == {i \in 1..Len(s) : s[i] \in chars}
    IN  IF hits = {} THEN Len(s) + 1 ELSE CHOOSE i \in hits : \A j \in hits : i <= j

SchemeChars == LowerLetters \cup DOMAIN LowerOf \cup DigitChars \cup {"+", "-", "."}

\* scheme: a leading letter, then letters, digits, "+", "-", "." up to ":".
split_scheme(url) ==
    Bind(FirstOf(url, {":"}), LAMBDA colon :
        IF /\ 1 < colon
           /\ colon <= Len(url)
           /\ LowerChar(url[1]) \in LowerLetters
           /\ \A i \in 1..(colon - 1) : url[i] \in SchemeChars
        THEN [scheme |-> LowerStr(Take(url, colon - 1)), rest |-> Drop(url, colon)]
        ELSE [scheme |-> <<>>, rest |-> url])

\* netloc: after "//", up to the first of "/", "?", "#".
split_netloc(url) ==
    IF StartsWith(url, <<"/", "/">>)
    THEN Bind(Drop(url, 2), LAMBDA after :
         Bind(FirstOf(after, {"/", "?", "#"}), LAMBDA delim :
            [netloc |-> Take(after, delim - 1), rest |-> Drop(after, delim - 1)]))
    ELSE [netloc |-> <<>>, rest |-> url]

\* s.split(sep, 1): the text before the first sep and the text after it.
split_once(s, sep) ==
    Bind(FirstOf(s, {sep}), LAMBDA at :
        [before |-> Take(s, at - 1), after |-> Drop(s, at)])

urlsplit(url) ==
    Bind(split_scheme(url), LAMBDA s :
    Bind(split_netloc(s.rest), LAMBDA n :
    Bind(split_once(n.rest, "#"), LAMBDA f :
    Bind(split_once(f.before, "?"), LAMBDA q :
        [scheme |-> s.scheme, netloc |-> n.netloc, path |-> q.before,
         query |-> q.after, fragment |-> f.after]))))

urlunsplit(scheme, netloc, path, query, fragment) ==
    Bind(IF netloc # <<>>
         THEN <<"/", "/">> \o netloc
                 \o (IF path # <<>> /\ Head(path) # "/" THEN <<"/">> ELSE <<>>) \o path
         ELSE path, LAMBDA url1 :
    Bind(IF scheme # <<>> THEN scheme \o <<":">> \o url1 ELSE url1, LAMBDA url2 :
    Bind(IF query # <<>> THEN url2 \o <<"?">> \o query ELSE url2, LAMBDA url3 :
        IF fragment # <<>> THEN url3 \o <<"#">> \o fragment ELSE url3)))

(***************************************************************************)
(* identity/views.py: _rewrite_location_header.                            *)
(***************************************************************************)
S_openclaw_agent_root == <<"/", "o", "p", "e", "n", "c", "l", "a", "w", "-", "a", "g", "e", "n", "t", "-">>

\* s.replace(old, new, 1)
ReplaceFirst(s, old, new) ==
    Bind({i \in 1..(Len(s) - Len(old) + 1) : SubSeq(s, i, i + Len(old) - 1) = old},
         LAMBDA at :
            IF old = <<>> THEN new \o s
            ELSE IF at = {} THEN s
            ELSE Bind(CHOOSE k \in at : \A j \in at : k <= j, LAMBDA i :
                    SubSeq(s, 1, i - 1) \o new \o Drop(s, i + Len(old) - 1)))

pod_root(pod_name) == S_openclaw_agent_root \o pod_name

_rewrite_location_header_keep_slash(location, prefix, pod_name) ==
    IF StartsWith(location, pod_root(pod_name))
    THEN ReplaceFirst(location, pod_root(pod_name), prefix)
    ELSE location

\* The branch of an absolute URL: its path is rewritten, the rest is kept.
rewrite_absolute(location, parsed, path, prefix, stem, root) ==
    IF StartsWith(path, root)
    THEN urlunsplit(parsed.scheme, parsed.netloc, ReplaceFirst(path, root, stem),
                    parsed.query, parsed.fragment)
    ELSE IF StartsWith(path, <<"/">>) /\ ~StartsWith(path, prefix)
    THEN urlunsplit(parsed.scheme, parsed.netloc, stem \o path,
                    parsed.query, parsed.fragment)
    ELSE location

rewrite_location(location, prefix, stem, root) ==
    IF location = <<>> THEN location
    ELSE IF StartsWith(location, root)
    THEN ReplaceFirst(location, root, stem)
    ELSE IF StartsWith(location, <<"/">>) /\ ~StartsWith(location, prefix)
    THEN stem \o location
    ELSE Bind(urlsplit(location), LAMBDA parsed :
            IF parsed.scheme # <<>> /\ parsed.netloc # <<>>
            THEN rewrite_absolute(location, parsed,
                                  IF parsed.path = <<>> THEN <<"/">> ELSE parsed.path,
                                  prefix, stem, root)
            ELSE location)

_rewrite_location_header(location, prefix, pod_name) ==
    rewrite_location(location, prefix, RStrip(prefix, {"/"}), pod_root(pod_name))

(***************************************************************************)
(* identity/views.py: the headers of the reverse proxy.  A header list is  *)
(* a sequence of <<name, value>> pairs, in insertion order.                *)
(***************************************************************************)
H_connection == <<"c", "o", "n", "n", "e", "c", "t", "i", "o", "n">>
H_keep_alive == <<"k", "e", "e", "p", "-", "a", "l", "i", "v", "e">>
H_proxy_authenticate == <<"p", "r", "o", "x", "y", "-", "a", "u", "t", "h", "e", "n", "t", "i", "c", "a", "t", "e">>
H_proxy_authorization == <<"p", "r", "o", "x", "y", "-", "a", "u", "t", "h", "o", "r", "i", "z", "a", "t", "i", "o", "n">>
H_te == <<"t", "e">>
H_trailers == <<"t", "r", "a", "i", "l", "e", "r", "s">>
H_transfer_encoding == <<"t", "r", "a", "n", "s", "f", "e", "r", "-", "e", "n", "c", "o", "d", "i", "n", "g">>
H_upgrade == <<"u", "p", "g", "r", "a", "d", "e">>
H_host == <<"h", "o", "s", "t">>
H_location == <<"l", "o", "c", "a", "t", "i", "o", "n">>
H_Host == <<"H", "o", "s", "t">>
H_X_Forwarded_Proto == <<"X", "-", "F", "o", "r", "w", "a", "r", "d", "e", "d", "-", "P", "r", "o", "t", "o">>
H_X_Forwarded_Host == <<"X", "-", "F", "o", "r", "w", "a", "r", "d", "e", "d", "-", "H", "o", "s", "t">>
H_X_Forwarded_For == <<"X", "-", "F", "o", "r", "w", "a", "r", "d", "e", "d", "-", "F", "o", "r">>
H_X_Forwarded_Prefix == <<"X", "-", "F", "o", "r", "w", "a", "r", "d", "e", "d", "-", "P", "r", "e", "f", "i", "x">>
S_https == <<"h", "t", "t", "p", "s">>
S_http == <<"h", "t", "t", "p">>

H_accept == <<"a", "c", "c", "e", "p", "t">>

hop_by_hop ==
    {H_connection, H_keep_alive, H_proxy_authenticate, H_proxy_authorization,
     H_te, H_trailers, H_transfer_encoding, H_upgrade}

Keys(headers) == {headers[i][1] : i \in 1..Len(headers)}

\* headers[key] = value
DictSet(headers, key, value) ==
    IF key \in Keys(headers)
    THEN [i \in 1..Len(headers) |->
            IF headers[i][1] = key THEN <<key, value>> ELSE headers[i]]
    ELSE Append(headers, <<key, value>>)

\* headers.setdefault(key, value)
DictSetDefault(headers, key, value) ==
    IF key \in Keys(headers) THEN headers ELSE Append(headers, <<key, value>>)

\* response[key] = value: the names of a response's headers are compared
\* without regard to case.
ResponseSet(headers, key, value) ==
    Append(SelectSeq(headers, LAMBDA h : LowerStr(h[1]) # LowerStr(key)),
           <<key, value>>)

_proxy_request_headers_case_sensitive(c, request) ==
    SelectSeq(request.headers,
              LAMBDA h : h[1] \notin hop_by_hop /\ h[1] # H_host)

_proxy_request_headers(c, request) ==
    LET kept == SelectSeq(request.headers,
                          LAMBDA h : /\ LowerStr(h[1]) \notin hop_by_hop
                                     /\ LowerStr(h[1]) # H_host)
        ingress_host == Strip(c.ingress_host, Whitespace)
        h1 == IF ingress_host # <<>> THEN DictSet(kept, H_Host, ingress_host) ELSE kept
        h2 == DictSetDefault(h1, H_X_Forwarded_Proto,
                             IF request.secure THEN S_https ELSE S_http)
        h3 == DictSetDefault(h2, H_X_Forwarded_Host, request.host)
    IN  IF request.remote_addr # <<>>
        THEN DictSetDefault(h3, H_X_Forwarded_For, request.remote_addr)
        ELSE h3

\* The headers of the request handed to urlopen.
upstream_request_headers(c, request, pod_name) ==
    DictSetDefault(_proxy_request_headers(c, request), H_X_Forwarded_Prefix,
                   _gui_path_for_pod(c, pod_name))

RECURSIVE copy_response_headers(_, _, _, _)
copy_response_headers(response, upstream, prefix, pod_name) ==
    IF upstream = <<>> THEN response
    ELSE LET key == Head(upstream)[1]
             value == Head(upstream)[2]
             lower == LowerStr(key)
             next == IF lower \in hop_by_hop THEN response
                     ELSE IF lower = H_location
                          THEN ResponseSet(response, key,
                                   _rewrite_location_header(value, prefix, pod_name))
                          ELSE ResponseSet(response, key, value)
         IN  copy_response_headers(next, Tail(upstream), prefix, pod_name)

\* The headers of the response returned to the client.
response_headers(c, upstream_headers, pod_name) ==
    copy_response_headers(<<>>, upstream_headers, _gui_path_for_pod(c, pod_name),
                          pod_name)

(***************************************************************************)
(* identity/views.py: _ensure_agent_gui_resources.                         *)
(***************************************************************************)
gui_labels(pod, owner) ==
    [app |-> "openclaw-agent", owner |-> owner, pod |-> pod.name]

service_body(pod, owner) ==
    [labels |-> gui_labels(pod, owner), port |-> GuiProxyPort]

endpoints_body(ns, pod, owner) ==
    [labels |-> gui_labels(pod, owner), ip |-> pod.data.ip,
     target |-> [kind |-> "Pod", name |-> pod.name, namespace |-> ns],
     port |-> GuiProxyPort]

subdomain_mode(c) == Strip(c.host_suffix, Whitespace) # <<>>

middleware_body(c, ns, pod, owner, group) ==
    [apiVersion |-> group, labels |-> gui_labels(pod, owner),
     spec |-> IF subdomain_mode(c)
              THEN [headers |-> "Content-Security-Policy"]
              ELSE [stripPrefix |-> _gui_path_prefix(c) \o <<"/">> \o pod.name]]

ingress_body(c, ns, pod, owner) ==
    LET traefik == c.ingress_class = "traefik"
        base == _gui_path_prefix(c) \o <<"/">> \o pod.name
    IN  [labels |-> gui_labels(pod, owner),
         annotations |->
            IF traefik
            THEN [middlewares |-> ns \o <<"-">> \o gui_middleware_name(pod.name),
                  entrypoints |-> "websecure", tls |-> "true"]
            ELSE [use_regex |-> "true", rewrite_target |-> "/$2"],
         class |-> c.ingress_class,
         host |-> _gui_host_for_pod(c, pod.name),
         path |-> IF traefik
                  THEN (IF subdomain_mode(c) THEN <<"/">> ELSE base)
                  ELSE base \o <<"(/|$)(.*)">>,
         path_type |-> IF traefik THEN "Prefix" ELSE "ImplementationSpecific",
         backend |-> [service |-> gui_service_name(pod.name), port |-> GuiProxyPort]]

\* The loop over the middleware API groups: the first group whose upsert
\* succeeds ends it; the error of the last group is the one raised.
RECURSIVE upsert_middleware(_, _, _, _, _, _)
upsert_middleware(ctx, c, ns, pod, owner, i) ==
    Bind(_upsert_custom_object(ctx, MiddlewareGroups[i], ns,
                               gui_middleware_name(pod.name),
                               middleware_body(c, ns, pod, owner, MiddlewareGroups[i])),
         LAMBDA u :
            IF u.exc = "ok" THEN u
            ELSE IF i < Len(MiddlewareGroups)
                 THEN upsert_middleware(Raise(u, "ok"), c, ns, pod, owner, i + 1)
                 ELSE Raise(u, "RuntimeError"))

_ensure_agent_gui_resources_ip_first(ctx, c, ns, pod, owner) ==
    IF pod.data.ip = 0 THEN Raise(ctx, "ValueError")
    ELSE
    Bind(_upsert_service(ctx, ns, gui_service_name(pod.name), service_body(pod, owner)),
         LAMBDA s1 :
    IF s1.exc # "ok" THEN Raise(s1, "RuntimeError")
    ELSE
    Bind(_upsert_endpoints(s1, ns, gui_service_name(pod.name),
                           endpoints_body(ns, pod, owner)),
         LAMBDA s2 :
    IF s2.exc # "ok" THEN Raise(s2, "RuntimeError")
    ELSE
    Bind(IF c.ingress_class = "traefik"
         THEN upsert_middleware(s2, c, ns, pod, owner, 1)
         ELSE s2,
         LAMBDA s3 :
    IF s3.exc # "ok" THEN s3
    ELSE
    Bind(_upsert_ingress(s3, ns, gui_ingress_name(pod.name),
                         ingress_body(c, ns, pod, owner)),
         LAMBDA s4 :
    IF s4.exc # "ok" THEN Raise(s4, "RuntimeError") ELSE s4))))

_ensure_agent_gui_resources(ctx, c, ns, pod, owner) ==
    Bind(_upsert_service(ctx, ns, gui_service_name(pod.name), service_body(pod, owner)),
         LAMBDA s1 :
    IF s1.exc # "ok" THEN Raise(s1, "RuntimeError")
    ELSE IF pod.data.ip = 0 THEN Raise(s1, "ValueError")
    ELSE
    Bind(_upsert_endpoints(s1, ns, gui_service_name(pod.name),
                           endpoints_body(ns, pod, owner)),
         LAMBDA s2 :
    IF s2.exc # "ok" THEN Raise(s2, "RuntimeError")
    ELSE
    Bind(IF c.ingress_class = "traefik"
         THEN upsert_middleware(s2, c, ns, pod, owner, 1)
         ELSE s2,
         LAMBDA s3 :
    IF s3.exc # "ok" THEN s3
    ELSE
    Bind(_upsert_ingress(s3, ns, gui_ingress_name(pod.name),
                         ingress_body(c, ns, pod, owner)),
         LAMBDA s4 :
    IF s4.exc # "ok" THEN Raise(s4, "RuntimeError") ELSE s4))))

(***************************************************************************)
(* identity/views.py: agent_manager (launch, then the pod list).           *)
(***************************************************************************)
S_dockerhub_secret == <<"d", "o", "c", "k", "e", "r", "h", "u", "b", "-", "s", "e", "c", "r", "e", "t">>
S_openai_secret == <<"o", "p", "e", "n", "a", "i", "-", "s", "e", "c", "r", "e", "t">>
S_openclaw_agent == <<"o", "p", "e", "n", "c", "l", "a", "w", "-", "a", "g", "e", "n", "t">>
S_default == <<"d", "e", "f", "a", "u", "l", "t">>

\* Best effort: any failure to read is swallowed; the create is not guarded.
_ensure_dockerhub_secret(ctx, ns) ==
    Bind(ApiRead(ctx, "secret", "", ns, S_dockerhub_secret), LAMBDA here :
    IF here.exc = "ok" THEN here
    ELSE
    Bind(ApiRead(Raise(here, "ok"), "secret", "", S_default, S_dockerhub_secret),
         LAMBDA source :
    IF source.exc # "ok" THEN Raise(source, "ok")
    ELSE
    Bind(CHOOSE o \in source.got : TRUE, LAMBDA found :
        ApiCreate(source, "secret", "", ns, S_dockerhub_secret,
                  [type |-> found.data.type, data |-> found.data.data]))))

launch_namespace(ctx, ns) ==
    Bind(ApiRead(ctx, "namespace", "", <<>>, ns), LAMBDA r :
        IF r.exc = "404"
        THEN ApiCreate(r, "namespace", "", <<>>, ns, [phase |-> "Active"])
        ELSE r)

launch_secret(ctx, ns, key) ==
    Upsert(ctx, "secret", "", ns, S_openai_secret,
           [type |-> "Opaque", data |-> [OPENAI_API_KEY |-> key]])

deployment_body(user, now) ==
    LET labels == [app |-> "openclaw-agent", owner |-> user.username]
    IN  [labels |-> labels, replicas |-> 1, selector |-> labels,
         template |-> [labels |-> labels, restarted_at |-> now,
                       secret |-> S_openai_secret,
                       image_pull_secret |-> S_dockerhub_secret]]

launch_deployment_per_launch(ctx, ns, user, now) ==
    Upsert(ctx, "deployment", "", ns, S_openclaw_agent \o IntToStr(now),
           deployment_body(user, now))

launch_deployment(ctx, ns, user, now) ==
    Upsert(ctx, "deployment", "", ns, S_openclaw_agent, deployment_body(user, now))

LaunchSteps == <<"namespace", "dockerhub-secret", "openai-secret", "deployment">>

\* The steps of a launch (namespace, pull credential, runtime secret,
\* Deployment), each run only if the one before it returned.  steps[i] is
\* "ok", the exception step i raised, "skipped" or "not reached".
launch_ignoring_failures(ctx, c, user, key, now) ==
    Bind(resolve_agent_namespace(user.username, user.id, c.env_ns), LAMBDA r :
    Bind(IF r.forced THEN ctx ELSE launch_namespace(ctx, r.namespace), LAMBDA s1 :
    Bind(_ensure_dockerhub_secret(Raise(s1, "ok"), r.namespace), LAMBDA s2 :
    Bind(launch_secret(Raise(s2, "ok"), r.namespace, key), LAMBDA s3 :
    Bind(launch_deployment(Raise(s3, "ok"), r.namespace, user, now), LAMBDA s4 :
        [ctx |-> IF s1.exc # "ok" THEN Raise(s4, s1.exc)
                 ELSE IF s2.exc # "ok" THEN Raise(s4, s2.exc)
                 ELSE IF s3.exc # "ok" THEN Raise(s4, s3.exc)
                 ELSE s4,
         steps |-> <<IF r.forced THEN "skipped" ELSE s1.exc,
                     s2.exc, s3.exc, s4.exc>>])))))

launch_rolling_back(ctx, c, user, key, now) ==
    Bind(resolve_agent_namespace(user.username, user.id, c.env_ns), LAMBDA r :
    Bind(IF r.forced THEN ctx ELSE launch_namespace(ctx, r.namespace), LAMBDA s1 :
    Bind(IF s1.exc = "ok" THEN _ensure_dockerhub_secret(s1, r.namespace) ELSE s1,
         LAMBDA s2 :
    Bind(IF s2.exc = "ok" THEN launch_secret(s2, r.namespace, key) ELSE s2,
         LAMBDA s3 :
    Bind(IF s3.exc = "ok" THEN launch_deployment(s3, r.namespace, user, now) ELSE s3,
         LAMBDA s4 :
        [ctx |-> [s4 EXCEPT !.objs = IF s4.exc = "ok" THEN s4.objs ELSE ctx.objs],
         steps |-> <<IF r.forced THEN "skipped" ELSE s1.exc,
                     IF s1.exc = "ok" THEN s2.exc ELSE "not reached",
                     IF s2.exc = "ok" THEN s3.exc ELSE "not reached",
                     IF s3.exc = "ok" THEN s4.exc ELSE "not reached">>])))))

launch(ctx, c, user, key, now) ==
    Bind(resolve_agent_namespace(user.username, user.id, c.env_ns), LAMBDA r :
    Bind(IF r.forced THEN ctx ELSE launch_namespace(ctx, r.namespace), LAMBDA s1 :
    Bind(IF s1.exc = "ok" THEN _ensure_dockerhub_secret(s1, r.namespace) ELSE s1,
         LAMBDA s2 :
    Bind(IF s2.exc = "ok" THEN launch_secret(s2, r.namespace, key) ELSE s2,
         LAMBDA s3 :
    Bind(IF s3.exc = "ok" THEN launch_deployment(s3, r.namespace, user, now) ELSE s3,
         LAMBDA s4 :
        [ctx |-> s4,
         steps |-> <<IF r.forced THEN "skipped" ELSE s1.exc,
                     IF s1.exc = "ok" THEN s2.exc ELSE "not reached",
                     IF s2.exc = "ok" THEN s3.exc ELSE "not reached",
                     IF s3.exc = "ok" THEN s4.exc ELSE "not reached">>])))))

\* key = 0: the form's key field was left blank.  saved holds the pairs
\* <<username, key>> of the users that have saved a key.
agent_manager(ctx, c, user, method, key, saved, now) ==
    LET ns == resolve_agent_namespace(user.username, user.id, c.env_ns).namespace
        stored == {k \in saved : k[1] = user.username}
        openai_key == IF key # 0 THEN key
                      ELSE IF stored # {} THEN (CHOOSE k \in stored : TRUE)[2]
                      ELSE 0
        launching == method = "POST" /\ openai_key # 0
        saved2 == IF launching
                  THEN (saved \ stored) \cup {<<user.username, openai_key>>}
                  ELSE saved
    IN  IF user.account_type # "human"
        THEN [ctx |-> ctx, steps |-> <<>>, saved |-> saved,
              resp |-> [kind |-> "redirect", to |-> "identity:profile"]]
        ELSE
        Bind(IF launching THEN launch(ctx, c, user, openai_key, now)
             ELSE [ctx |-> ctx, steps |-> <<>>],
             LAMBDA l :
        IF launching /\ l.ctx.exc = "ok"
        THEN [ctx |-> l.ctx, steps |-> l.steps, saved |-> saved2,
              resp |-> [kind |-> "redirect", to |-> "identity:agent_manager"]]
        ELSE
        Bind(ApiListPods(Raise(l.ctx, "ok"), ns, NoSelector), LAMBDA listed :
             [ctx |-> listed, steps |-> l.steps, saved |-> saved2,
              resp |-> [kind |-> "render", template |-> "agent_manager",
                        form_error |-> (method = "POST" /\ openai_key = 0),
                        error_message |->
                            IF listed.exc # "ok" /\ listed.exc # "404" THEN listed.exc
                            ELSE IF launching THEN l.ctx.exc ELSE "",
                        agents |-> {o.name : o \in listed.got}]]))

(***************************************************************************)
(* The order in which the API server lists objects: by namespace, then by  *)
(* name, in byte order.                                                    *)
(***************************************************************************)
K8sChars == <<"-">> \o <<"0", "1", "2", "3", "4", "5", "6", "7", "8", "9">> \o LowerLetterSeq

CharRank(c) == CHOOSE i \in 1..Len(K8sChars) : K8sChars[i] = c

RECURSIVE TextLess(_, _)
TextLess(a, b) ==
    IF a = <<>> THEN b # <<>>
    ELSE IF b = <<>> THEN FALSE
    ELSE IF Head(a) = Head(b) THEN TextLess(Tail(a), Tail(b))
    ELSE CharRank(Head(a)) < CharRank(Head(b))

ListedBefore(o, q) == TextLess(o.ns, q.ns) \/ (o.ns = q.ns /\ TextLess(o.name, q.name))

RECURSIVE Items(_)
Items(found) ==
    IF found = {} THEN <<>>
    ELSE LET first == CHOOSE o \in found : \A q \in found \ {o} : ListedBefore(o, q)
         IN  <<first>> \o Items(found \ {first})

(***************************************************************************)
(* identity/views.py: _resolve_pod.                                        *)
(***************************************************************************)
\* Returns the context, the pod read (pods is empty when an exception is
\* raised) and the namespace it was found in.  The last statement is a
\* raise with no exception being handled: a RuntimeError.
_resolve_pod(ctx, pod_name, namespace, allow_cross_namespace) ==
    Bind(ApiRead(ctx, "pod", "", namespace, pod_name), LAMBDA r :
    IF r.exc = "ok" THEN [ctx |-> r, pods |-> r.got, namespace |-> namespace]
    ELSE IF r.exc # "404" \/ ~allow_cross_namespace
         THEN [ctx |-> r, pods |-> {}, namespace |-> namespace]
    ELSE
    Bind(ApiListPods(Raise(r, "ok"), <<>>, FieldSelector(pod_name)), LAMBDA l :
    IF l.exc # "ok" THEN [ctx |-> l, pods |-> {}, namespace |-> namespace]
    ELSE IF l.got # {}
         THEN [ctx |-> l, pods |-> {Items(l.got)[1]}, namespace |-> Items(l.got)[1].ns]
         ELSE [ctx |-> Raise(l, "RuntimeError"), pods |-> {}, namespace |-> namespace]))

(***************************************************************************)
(* identity/views.py: _delete_agent_gui_resources.                         *)
(***************************************************************************)
delete_swallowing_404(ctx, kind, namespace, name) ==
    Bind(ApiDelete(ctx, kind, "", namespace, name), LAMBDA d :
        IF d.exc = "404" THEN Raise(d, "ok") ELSE d)

RECURSIVE delete_middlewares(_, _, _, _)
delete_middlewares(ctx, namespace, pod_name, i) ==
    IF i > Len(MiddlewareGroups) THEN ctx
    ELSE Bind(_delete_custom_object(ctx, MiddlewareGroups[i], namespace,
                                    gui_middleware_name(pod_name)),
              LAMBDA d :
                 IF d.exc # "ok" THEN d
                 ELSE delete_middlewares(d, namespace, pod_name, i + 1))

_delete_agent_gui_resources_strict(ctx, c, namespace, pod_name) ==
    Bind(ApiDelete(ctx, "ingress", "", namespace, gui_ingress_name(pod_name)),
         LAMBDA d1 :
    IF d1.exc # "ok" THEN d1
    ELSE
    Bind(ApiDelete(d1, "endpoints", "", namespace, gui_service_name(pod_name)),
         LAMBDA d2 :
    IF d2.exc # "ok" THEN d2
    ELSE ApiDelete(d2, "service", "", namespace, gui_service_name(pod_name))))

_delete_agent_gui_resources(ctx, c, namespace, pod_name) ==
    Bind(delete_swallowing_404(ctx, "ingress", namespace, gui_ingress_name(pod_name)),
         LAMBDA d1 :
    IF d1.exc # "ok" THEN d1
    ELSE
    Bind(delete_swallowing_404(d1, "endpoints", namespace, gui_service_name(pod_name)),
         LAMBDA d2 :
    IF d2.exc # "ok" THEN d2
    ELSE
    Bind(delete_swallowing_404(d2, "service", namespace, gui_service_name(pod_name)),
         LAMBDA d3 :
    IF d3.exc # "ok" THEN d3
    ELSE IF c.ingress_class = "traefik"
         THEN delete_middlewares(d3, namespace, pod_name, 1)
         ELSE d3)))

(***************************************************************************)
(* identity/views.py: agent_detail (logs, restart, delete).                *)
(***************************************************************************)
allow_cross_namespace(user) == user.staff

ApiReadLog(ctx0, ns, name) ==
    Bind(ctx0, LAMBDA ctx :
        LET found == Find(ctx.objs, "pod", "", ns, name)
            status == IF Faulty(ctx) THEN "500"
                      ELSE IF found = {} THEN "404"
                      ELSE "200"
        IN  Answer(ctx, "log", "pod", "", ns, name, status, ctx.objs, {}))

restart_action(ctx, namespace, pod_name) ==
    ApiDelete(ctx, "pod", "", namespace, pod_name)

delete_action_despite_cleanup(ctx, c, user, namespace, pod_name) ==
    Bind(_resolve_pod(ctx, pod_name, namespace, allow_cross_namespace(user)),
         LAMBDA r :
    IF r.ctx.exc # "ok" THEN r.ctx
    ELSE
    Bind(_delete_agent_gui_resources(r.ctx, c, r.namespace, pod_name), LAMBDA g :
    Bind(ApiDelete(Raise(g, "ok"), "pod", "", r.namespace, pod_name), LAMBDA d :
        IF g.exc # "ok" THEN Raise(d, g.exc) ELSE d)))

delete_action_with_deployment(ctx, c, user, namespace, pod_name) ==
    Bind(_resolve_pod(ctx, pod_name, namespace, allow_cross_namespace(user)),
         LAMBDA r :
    IF r.ctx.exc # "ok" THEN r.ctx
    ELSE
    Bind(_delete_agent_gui_resources(r.ctx, c, r.namespace, pod_name), LAMBDA g :
    IF g.exc # "ok" THEN g
    ELSE
    Bind(ApiDelete(g, "pod", "", r.namespace, pod_name), LAMBDA d :
    IF d.exc # "ok" THEN d
    ELSE ApiDelete(d, "deployment", "", r.namespace, S_openclaw_agent))))

delete_action(ctx, c, user, namespace, pod_name) ==
    Bind(_resolve_pod(ctx, pod_name, namespace, allow_cross_namespace(user)),
         LAMBDA r :
    IF r.ctx.exc # "ok" THEN r.ctx
    ELSE
    Bind(_delete_agent_gui_resources(r.ctx, c, r.namespace, pod_name), LAMBDA g :
    IF g.exc # "ok" THEN g
    ELSE ApiDelete(g, "pod", "", r.namespace, pod_name)))

view_logs(ctx, user, namespace, pod_name) ==
    Bind(_resolve_pod(ctx, pod_name, namespace, allow_cross_namespace(user)),
         LAMBDA r :
    IF r.ctx.exc # "ok" THEN r.ctx
    ELSE ApiReadLog(r.ctx, r.namespace, pod_name))

ApiStatuses == {"404", "409", "422", "500"}

\* action: "restart", "delete", or "" for a GET (or a POST naming no action).
agent_detail(ctx, c, user, action, pod_name) ==
    LET namespace == resolve_agent_namespace(user.username, user.id, c.env_ns).namespace
    IN  IF user.account_type # "human"
        THEN [ctx |-> ctx, resp |-> [kind |-> "redirect", to |-> "identity:profile"]]
        ELSE
        Bind(IF action = "restart" THEN restart_action(ctx, namespace, pod_name)
             ELSE IF action = "delete" THEN delete_action(ctx, c, user, namespace, pod_name)
             ELSE view_logs(ctx, user, namespace, pod_name),
             LAMBDA done :
        [ctx |-> done,
         resp |->
            IF done.exc = "404"
            THEN [kind |-> "redirect", to |-> "identity:agent_manager",
                  message |-> "error: Pod not found."]
            ELSE IF done.exc # "ok"
            THEN [kind |-> "render", template |-> "agent_detail",
                  error_message |-> done.exc]
            ELSE IF action = "restart"
            THEN [kind |-> "redirect", to |-> "identity:agent_detail",
                  message |-> "success: Restart initiated."]
            ELSE IF action = "delete"
            THEN [kind |-> "redirect", to |-> "identity:agent_manager",
                  message |-> "success: Pod deleted."]
            ELSE [kind |-> "render", template |-> "agent_detail",
                  error_message |-> ""]])

(***************************************************************************)
(* identity/views.py: agent_gui_proxy.                                     *)
(***************************************************************************)
\* sorted(items, key=start_time or the earliest time, reverse=True)[0]: the
\* sort is stable, so of the pods started last the first listed is taken.
first_listed_pod(items) == items[1]

newest_pod(items) ==
    LET latest == {i \in 1..Len(items) :
                      \A j \in 1..Len(items) : items[j].data.start <= items[i].data.start}
    IN  items[CHOOSE i \in latest : \A j \in latest : i <= j]

NoUpstream == [kind |-> "none"]

\* f"Proxy error: {exc.reason}"
S_proxy_error == <<"P", "r", "o", "x", "y", " ", "e", "r", "r", "o", "r">>

\* request.get_full_path() of the proxy's two routes.
proxy_path(pod_name, subpath) == S_agents_gui \o <<"/">> \o pod_name \o <<"/">> \o subpath

\* The part of the view after the exposure is in place: the upstream
\* request and the response built from the upstream's answer.
proxy_upstream_hiding_status(c, request, pod_name, subpath, upstream) ==
    [sent |-> [kind |-> "request", path |-> proxy_path(pod_name, subpath),
               headers |-> upstream_request_headers(c, request, pod_name)],
     resp |-> IF upstream.kind \in {"HTTPError", "URLError"}
              THEN [kind |-> "http", status |-> 502, headers |-> <<>>,
                    body |-> S_proxy_error]
              ELSE [kind |-> "http", status |-> upstream.status,
                    headers |-> response_headers(c, upstream.headers, pod_name),
                    body |-> upstream.body]]

proxy_upstream(c, request, pod_name, subpath, upstream) ==
    [sent |-> [kind |-> "request", path |-> proxy_path(pod_name, subpath),
               headers |-> upstream_request_headers(c, request, pod_name)],
     resp |-> IF upstream.kind = "HTTPError"
              THEN \* HttpResponse(exc.read() or exc.reason, status=exc.code)
                   [kind |-> "http", status |-> upstream.status, headers |-> <<>>,
                    body |-> IF upstream.body # <<>> THEN upstream.body
                             ELSE upstream.reason]
              ELSE IF upstream.kind = "URLError"
              THEN [kind |-> "http", status |-> 502, headers |-> <<>>,
                    body |-> S_proxy_error]
              ELSE [kind |-> "http", status |-> upstream.status,
                    headers |-> response_headers(c, upstream.headers, pod_name),
                    body |-> upstream.body]]

\* An answer of the view that sends nothing upstream.
Ends(x, response, resolved, scan) ==
    [ctx |-> x, resp |-> response, resolved |-> resolved, scan |-> scan,
     sent |-> NoUpstream]

NoPod == [name |-> <<>>]

\* What the view found to serve: pod is the pod, or NoPod with the answer.
Target(x, pod, namespace, scan, response) ==
    [ctx |-> x, pod |-> pod, namespace |-> namespace, scan |-> scan, resp |-> response]

\* The owner scan that follows a 404 of the named pod.
scan_owner_pods(ctx, user, ns, pod_name, subpath) ==
    Bind(ApiListPods(ctx, ns, LabelSelector(user.username)), LAMBDA l :
    IF l.exc # "ok"
    THEN Target(l, NoPod, ns, {}, [kind |-> "http", status |-> 502, headers |-> <<>>])
    ELSE IF l.got = {}
    THEN \* _pod_debug_snapshot lists once more, for the message
         Bind(ApiListPods(l, ns, LabelSelector(user.username)), LAMBDA snapshot :
            Target(Raise(snapshot, "ok"), NoPod, ns, {},
                   [kind |-> "http", status |-> 404, headers |-> <<>>]))
    ELSE
    Bind(newest_pod(Items(l.got)), LAMBDA pod :
    IF pod.name # pod_name
    THEN Target(l, [name |-> <<>>, redirected |-> pod.name], ns, l.got,
                [kind |-> "redirect",
                 to |-> S_agents_gui \o <<"/">> \o pod.name \o <<"/">> \o subpath])
    ELSE Target(l, pod, ns, l.got, NoResp)))

\* The pod the view serves: the named pod, or after its 404 the owner's
\* newest pod when that is the named one.
resolve_target(ctx, user, ns, pod_name, subpath) ==
    Bind(_resolve_pod(ctx, pod_name, ns, allow_cross_namespace(user)), LAMBDA r :
    IF r.ctx.exc = "ok"
    THEN Target(r.ctx, CHOOSE o \in r.pods : TRUE, r.namespace, {}, NoResp)
    ELSE IF r.ctx.exc # "404"
    THEN Target(r.ctx, NoPod, ns, {}, [kind |-> "http", status |-> 502, headers |-> <<>>])
    ELSE scan_owner_pods(Raise(r.ctx, "ok"), user, ns, pod_name, subpath))

serve_pod_despite_failure(t, c, user, request, pod_name, subpath, upstream) ==
    Bind(_ensure_agent_gui_resources(t.ctx, c, t.namespace, t.pod, user.username),
         LAMBDA e :
            Bind(proxy_upstream(c, request, pod_name, subpath, upstream),
                 LAMBDA u :
                    [ctx |-> e, resp |-> u.resp, resolved |-> t.pod.name,
                     scan |-> t.scan, sent |-> u.sent]))

\* The exposure is ensured, then the request goes upstream.
serve_pod(t, c, user, request, pod_name, subpath, upstream) ==
    Bind(_ensure_agent_gui_resources(t.ctx, c, t.namespace, t.pod, user.username),
         LAMBDA e :
            IF e.exc # "ok"
            THEN Ends(e, [kind |-> "http", status |-> 502, headers |-> <<>>],
                      t.pod.name, t.scan)
            ELSE Bind(proxy_upstream(c, request, pod_name, subpath, upstream),
                      LAMBDA u :
                         [ctx |-> e, resp |-> u.resp, resolved |-> t.pod.name,
                          scan |-> t.scan, sent |-> u.sent]))

\* The result names the pod the view resolved (resolved is <<>> when it
\* resolved none), the pods its owner scan listed, and the request it sent
\* upstream.
agent_gui_proxy(ctx, c, user, request, pod_name, subpath, upstream) ==
    IF user.account_type # "human"
    THEN Ends(ctx, [kind |-> "redirect", to |-> "identity:profile"], <<>>, {})
    ELSE IF ~c.proxy_base
    THEN Ends(ctx, [kind |-> "http", status |-> 503, headers |-> <<>>], <<>>, {})
    ELSE
    Bind(resolve_target(ctx, user,
                        resolve_agent_namespace(user.username, user.id, c.env_ns).namespace,
                        pod_name, subpath), LAMBDA t :
    IF t.pod.name = <<>>
    THEN Ends(t.ctx, t.resp,
              IF "redirected" \in DOMAIN t.pod THEN t.pod.redirected ELSE <<>>, t.scan)
    ELSE serve_pod(t, c, user, request, pod_name, subpath, upstream))

(***************************************************************************)
(* Inputs of the namespace resolver.                                       *)
(***************************************************************************)
UsernameChars == {"a", "B", "-", "_", " ", ".", "E_ACUTE", "CJK"}

Tails == UNION {[1..n -> UsernameChars] : n \in 0..MaxTail}

\* Lengths of the run of letters put before the tail, so that the tail
\* falls before, on and after the cut at NsMaxLen.
PadLens == {0, NsMaxLen - 2, NsMaxLen - 1, NsMaxLen}

Usernames == {Repeat("a", p) \o t : p \in PadLens, t \in Tails}

UserIds == 1..MaxUserId

\* AGENT_NAMESPACE: unset, or the name of a namespace the operator has
\* provisioned (given with surrounding blanks, which the code strips).
SharedNs == <<"s", "b">>
EnvValues == {<<>>, <<" ">> \o SharedNs \o <<" ">>}

NsInit ==
    /\ ns_username \in Usernames
    /\ ns_user_id \in UserIds
    /\ ns_env \in EnvValues
    /\ ns_result = NoResult
    /\ ns_pc = "call"
    /\ ClIdle
    /\ PxIdle
    /\ TmIdle

ResolveAgentNamespace ==
    /\ ns_pc = "call"
    /\ ns_result' = resolve_agent_namespace(ns_username, ns_user_id, ns_env)
    /\ ns_pc' = "done"
    /\ UNCHANGED <<ns_username, ns_user_id, ns_env>>
    /\ UNCHANGED <<clVars, pxVars, tmVars>>

NsNext == ResolveAgentNamespace

SpecNs == NsInit /\ [][NsNext]_vars

(***************************************************************************)
(* C1: for every username and user id, resolve_agent_namespace returns a   *)
(* non-empty namespace of at most 63 characters whose first and last       *)
(* characters are not the separator "-".                                   *)
(***************************************************************************)
Separators == {"-"}

MaxIp == 2
MaxFault == 10
MaxGuiFault == 4
MaxUpFault == 2
MaxKey == 1
MaxClock == 2
MaxPodGen == 2
MaxHeaders == 2

PodName(g) == <<"p">> \o IntToStr(g)

UserAnn == [username |-> <<"a">>, id |-> 1, staff |-> FALSE, account_type |-> "human"]
UserBob == [username |-> <<"b">>, id |-> 2, staff |-> TRUE, account_type |-> "human"]
UserBot == [username |-> <<"c">>, id |-> 3, staff |-> FALSE, account_type |-> "agent"]

Settings(env_ns, class, suffix) ==
    [env_ns |-> env_ns, ingress_class |-> class, host_suffix |-> suffix,
     ingress_host |-> <<>>, path_prefix |-> <<>>, proxy_base |-> TRUE]

NamespaceObj(ns) == Obj("namespace", "", <<>>, ns, [phase |-> "Active"])

CrdObj(group) == Obj("crd", group, <<>>, <<>>, [plural |-> "middlewares"])

\* ip = 0: the pod has no IP yet; start = 0: it has no start time yet.
PodObj(ns, name, owner, ip, start, stamp) ==
    Obj("pod", "", ns, name,
        [labels |-> [app |-> "openclaw-agent", owner |-> owner],
         ip |-> ip, start |-> start, stamp |-> stamp])

CrdSets == SUBSET {MiddlewareGroups[i] : i \in 1..Len(MiddlewareGroups)}

(***************************************************************************)
(* SpecUpsert: the four upsert helpers, called with the bodies that        *)
(* _ensure_agent_gui_resources builds, against a cluster that another      *)
(* writer may change between two calls.                                    *)
(***************************************************************************)
UpNs == normalize_namespace(UserAnn.username, UserAnn.id)

UpPods == {PodObj(UpNs, PodName(1), UserAnn.username, ip, 1, 1) : ip \in 1..MaxIp}

UpOwners == {UserAnn.username}

UpInit ==
    /\ cfg \in {Settings(<<>>, "", <<"x">>), Settings(<<>>, "traefik", <<>>)}
    /\ \E present \in BOOLEAN, crds \in CrdSets :
          objs = (IF present THEN {NamespaceObj(UpNs)} ELSE {})
                 \cup {CrdObj(g) : g \in crds}
    /\ req = NoReq
    /\ calls = <<>>
    /\ resp = NoResp
    /\ saved_keys = {}
    /\ clock = 0
    /\ pod_gen = 0
    /\ NsIdle
    /\ TmIdle
    /\ PxIdle

\* The call about to be made repeats the call made last: same helper, same
\* resource, same desired body, the last call returned without error and
\* nothing was written since.
UpRepeats(kind, group, name, body) ==
    /\ req.op = "upsert"
    /\ req.kind = kind
    /\ req.group = group
    /\ req.name = name
    /\ req.body = body
    /\ resp.exc = "ok"

UpDone(kind, group, name, body, fault, out) ==
    /\ fault <= Len(out.calls)
    /\ req' = [op |-> "upsert", kind |-> kind, group |-> group, ns |-> UpNs,
               name |-> name, body |-> body, fault |-> fault,
               repeated |-> UpRepeats(kind, group, name, body)]
    /\ calls' = out.calls
    /\ objs' = out.objs
    /\ resp' = [kind |-> "returned", exc |-> out.exc, changed |-> out.objs # objs]
    /\ UNCHANGED <<cfg, saved_keys, clock, pod_gen, fnVars>>

UpService ==
    \E pod \in UpPods, owner \in UpOwners, fault \in 0..MaxUpFault :
        LET name == gui_service_name(pod.name)
            body == service_body(pod, owner)
        IN  \E out \in {_upsert_service(Ctx(objs, fault), UpNs, name, body)} :
                UpDone("service", "", name, body, fault, out)

UpEndpoints ==
    \E pod \in UpPods, owner \in UpOwners, fault \in 0..MaxUpFault :
        LET name == gui_service_name(pod.name)
            body == endpoints_body(UpNs, pod, owner)
        IN  \E out \in {_upsert_endpoints(Ctx(objs, fault), UpNs, name, body)} :
                UpDone("endpoints", "", name, body, fault, out)

UpIngress ==
    \E pod \in UpPods, owner \in UpOwners, fault \in 0..MaxUpFault :
        LET name == gui_ingress_name(pod.name)
            body == ingress_body(cfg, UpNs, pod, owner)
        IN  \E out \in {_upsert_ingress(Ctx(objs, fault), UpNs, name, body)} :
                UpDone("ingress", "", name, body, fault, out)

UpCustomObject ==
    \E pod \in UpPods, owner \in UpOwners, fault \in 0..MaxUpFault,
       i \in 1..Len(MiddlewareGroups) :
        LET group == MiddlewareGroups[i]
            name == gui_middleware_name(pod.name)
            body == middleware_body(cfg, UpNs, pod, owner, group)
        IN  \E out \in {_upsert_custom_object(Ctx(objs, fault), group, UpNs, name, body)} :
                UpDone("middleware", group, name, body, fault, out)

\* Another writer deletes one of the objects, or provisions the namespace.
UpOtherWriter ==
    /\ \/ \E o \in objs :
             /\ o.kind \in {"service", "endpoints", "ingress", "middleware"}
             /\ objs' = objs \ {o}
       \/ /\ ~NsExists(objs, UpNs)
          /\ objs' = objs \cup {NamespaceObj(UpNs)}
    /\ req' = [op |-> "other"]
    /\ calls' = <<>>
    /\ resp' = NoResp
    /\ UNCHANGED <<cfg, saved_keys, clock, pod_gen, fnVars>>

UpNext == UpService \/ UpEndpoints \/ UpIngress \/ UpCustomObject \/ UpOtherWriter

SpecUpsert == UpInit /\ [][UpNext]_vars

Users == {UserAnn, UserBob, UserBot}

ClSettings ==
    {Settings(<<>>, "", <<>>),
     Settings(<<" ">> \o SharedNs \o <<" ">>, "traefik", <<"x">>)}

ClInit ==
    /\ cfg \in ClSettings
    /\ \E source \in BOOLEAN, crds \in CrdSets :
          /\ cfg.ingress_class # "traefik" => crds = {}
          /\ objs = {NamespaceObj(S_default)}
                    \cup (IF source
                          THEN {Obj("secret", "", S_default, S_dockerhub_secret,
                                    [type |-> "kubernetes.io/dockerconfigjson",
                                     data |-> [dockerconfigjson |-> "registry"]])}
                          ELSE {})
                    \cup (IF Strip(cfg.env_ns, Whitespace) # <<>>
                          THEN {NamespaceObj(Strip(cfg.env_ns, Whitespace))}
                          ELSE {})
                    \cup {CrdObj(g) : g \in crds}
    /\ req = NoReq
    /\ calls = <<>>
    /\ resp = NoResp
    /\ saved_keys = {}
    /\ clock = 0
    /\ pod_gen = 0
    /\ NsIdle
    /\ TmIdle
    /\ PxIdle

UserNs(user) == resolve_agent_namespace(user.username, user.id, cfg.env_ns)

\* A failure of the API server can only hit a call the handler makes: with n
\* calls made when none fails, call 1..n (0: no failure).
Faults(n) == 0..(IF n < MaxFault THEN n ELSE MaxFault)

GuiFaults(n) == 0..(IF n < MaxGuiFault THEN n ELSE MaxGuiFault)

PodNames == {PodName(g) : g \in 0..MaxPodGen}

Keys3(os) == {<<o.kind, o.ns, o.name>> : o \in os}

AgentManager ==
    /\ req = NoReq
    /\ \E user \in Users, method \in {"GET", "POST"}, key \in 0..MaxKey :
       \E fault \in Faults(Len(agent_manager(Ctx(objs, 0), cfg, user, method, key,
                                             saved_keys, clock + 1).ctx.calls)) :
       \E out \in {agent_manager(Ctx(objs, fault), cfg, user, method, key,
                                 saved_keys, clock + 1)} :
           /\ method = "GET" => key = 0
           /\ clock < MaxClock
           /\ req' = [op |-> "agent_manager", user |-> user, method |-> method,
                      key |-> key, fault |-> fault,
                      ns |-> UserNs(user).namespace, forced |-> UserNs(user).forced,
                      steps |-> out.steps, had |-> Keys3(objs)]
           /\ calls' = out.ctx.calls
           /\ objs' = out.ctx.objs
           /\ resp' = out.resp
           /\ saved_keys' = out.saved
           /\ clock' = IF method = "POST" THEN clock + 1 ELSE clock
           /\ UNCHANGED <<cfg, pod_gen, fnVars>>

AgentDetail ==
    /\ req = NoReq
    /\ \E user \in Users, action \in {"", "restart", "delete"}, pod_name \in PodNames :
       \E fault \in Faults(Len(agent_detail(Ctx(objs, 0), cfg, user, action,
                                            pod_name).ctx.calls)) :
       \E out \in {agent_detail(Ctx(objs, fault), cfg, user, action, pod_name)} :
           /\ req' = [op |-> "agent_detail", user |-> user, action |-> action,
                      pod_name |-> pod_name, fault |-> fault,
                      ns |-> UserNs(user).namespace, had |-> Keys3(objs)]
           /\ calls' = out.ctx.calls
           /\ objs' = out.ctx.objs
           /\ resp' = out.resp
           /\ UNCHANGED <<cfg, saved_keys, clock, pod_gen, fnVars>>

ProxyRequest ==
    [headers |-> <<<<UpperStr(H_connection), <<"v">>>>, <<H_accept, <<"v">>>>>>,
     secure |-> TRUE, host |-> <<"w">>, remote_addr |-> <<"1">>]

\* The subpath requested and what urlopen comes back with.
ProxyExchanges ==
    {[subpath |-> <<"s">>,
      upstream |-> [kind |-> "response", status |-> 302, body |-> <<"b">>,
                    headers |-> <<<<H_location, S_openclaw_agent_root \o PodName(1)>>,
                                  <<H_keep_alive, <<"v">>>>>>]],
     [subpath |-> <<>>,
      upstream |-> [kind |-> "HTTPError", status |-> 404, body |-> <<"b">>,
                    reason |-> <<"r">>]],
     [subpath |-> <<>>,
      upstream |-> [kind |-> "HTTPError", status |-> 500, body |-> <<>>,
                    reason |-> <<"r">>]],
     [subpath |-> <<>>, upstream |-> [kind |-> "URLError"]]}

AgentGuiProxy ==
    /\ req = NoReq
    /\ \E user \in Users, pod_name \in PodNames, x \in ProxyExchanges :
       \E fault \in GuiFaults(Len(agent_gui_proxy(Ctx(objs, 0), cfg, user, ProxyRequest,
                                               pod_name, x.subpath, x.upstream).ctx.calls)) :
       \E out \in {agent_gui_proxy(Ctx(objs, fault), cfg, user, ProxyRequest,
                                   pod_name, x.subpath, x.upstream)} :
           /\ req' = [op |-> "agent_gui_proxy", user |-> user, pod_name |-> pod_name,
                      subpath |-> x.subpath, upstream |-> x.upstream, fault |-> fault,
                      ns |-> UserNs(user).namespace, had |-> Keys3(objs),
                      resolved |-> out.resolved, scan |-> out.scan, sent |-> out.sent]
           /\ calls' = out.ctx.calls
           /\ objs' = out.ctx.objs
           /\ resp' = out.resp
           /\ UNCHANGED <<cfg, saved_keys, clock, pod_gen, fnVars>>

\* The response is returned: the worker is free for the next request.
Respond ==
    /\ req # NoReq
    /\ req' = NoReq
    /\ calls' = <<>>
    /\ resp' = NoResp
    /\ UNCHANGED <<cfg, objs, saved_keys, clock, pod_gen, fnVars>>

\* The Deployment controller, acting between two requests.
CtlSpawnPod ==
    /\ pod_gen < MaxPodGen
    /\ \E d \in objs :
          /\ d.kind = "deployment"
          /\ ~\E o \in objs : /\ o.kind = "pod"
                              /\ o.ns = d.ns
                              /\ o.data.labels = d.data.template.labels
                              /\ o.data.stamp = d.data.template.restarted_at
          /\ objs' = objs \cup {PodObj(d.ns, PodName(pod_gen + 1),
                                       d.data.template.labels.owner, 0, 0,
                                       d.data.template.restarted_at)}
    /\ pod_gen' = pod_gen + 1
    /\ req = NoReq
    /\ UNCHANGED <<req, calls, resp>>
    /\ UNCHANGED <<cfg, saved_keys, clock, fnVars>>

\* A pod is scheduled and started: it gets its IP and its start time.
CtlStartPod ==
    /\ \E o \in objs, g \in 1..MaxPodGen :
          /\ o.kind = "pod"
          /\ o.data.ip = 0
          /\ o.name = PodName(g)
          /\ objs' = (objs \ {o}) \cup
                     {[o EXCEPT !.data = [o.data EXCEPT !.ip = g, !.start = g]]}
    /\ req = NoReq
    /\ UNCHANGED <<req, calls, resp>>
    /\ UNCHANGED <<cfg, saved_keys, clock, pod_gen, fnVars>>

\* A rollout ends: the pod of the old template goes once the new one runs.
CtlRetirePod ==
    /\ \E o \in objs, d \in objs, n \in objs :
          /\ o.kind = "pod" /\ d.kind = "deployment" /\ n.kind = "pod"
          /\ o.ns = d.ns /\ n.ns = d.ns
          /\ o.data.labels = d.data.template.labels
          /\ n.data.labels = d.data.template.labels
          /\ o.data.stamp # d.data.template.restarted_at
          /\ n.data.stamp = d.data.template.restarted_at
          /\ n.data.ip # 0
          /\ objs' = objs \ {o}
    /\ req = NoReq
    /\ UNCHANGED <<req, calls, resp>>
    /\ UNCHANGED <<cfg, saved_keys, clock, pod_gen, fnVars>>

ClNext == AgentManager \/ Respond \/ CtlSpawnPod \/ CtlStartPod \/ CtlRetirePod

SpecCluster == ClInit /\ [][ClNext]_vars

(***************************************************************************)
(* SpecGui: pod detail, restart, delete and GUI access, in a cluster in    *)
(* which the user has launched an agent: the namespace, the secrets and    *)
(* the Deployment are in place and its first pod runs.  In half of the     *)
(* initial states the user has launched again since, and the rollout to    *)
(* the new template is still to come.                                      *)
(***************************************************************************)
GuiSettings ==
    {Settings(<<>>, "", <<>>), Settings(<<>>, "traefik", <<"x">>)}

LaunchedObjs(c, user, now) ==
    launch(Ctx({NamespaceObj(S_default)}, 0), c, user, 1, now).ctx.objs

GuiInit ==
    /\ cfg \in GuiSettings
    /\ \E now \in 1..MaxClock, crds \in CrdSets :
       \E base \in {LaunchedObjs(cfg, UserAnn, now)
                    \cup {PodObj(UserNs(UserAnn).namespace, PodName(1),
                                 UserAnn.username, 1, 1, 1)}
                    \cup {CrdObj(g) : g \in crds}} :
          /\ cfg.ingress_class # "traefik" => crds = {}
          /\ objs = base
          /\ clock = now
    /\ req = NoReq
    /\ calls = <<>>
    /\ resp = NoResp
    /\ saved_keys = {<<UserAnn.username, 1>>}
    /\ pod_gen = 1
    /\ NsIdle
    /\ TmIdle
    /\ PxIdle

GuiNext == AgentGuiProxy \/ Respond \/ CtlSpawnPod \/ CtlStartPod \/ CtlRetirePod

SpecGui == GuiInit /\ [][GuiNext]_vars

(***************************************************************************)
(* C7: in the reverse proxy, an owner scan that returns pods ends in a     *)
(* redirect to the proxy URL of the pod started last, subpath kept; every  *)
(* call on an exposure object is made under the name derived from the pod  *)
(* the view resolved, which exists; and a request goes upstream only under *)
(* the name of the resolved pod.                                           *)
(***************************************************************************)
ExposureKinds == {"service", "endpoints", "ingress", "middleware"}

ExposureNames(pod_name) ==
    {<<"ingress", gui_ingress_name(pod_name)>>,
     <<"endpoints", gui_service_name(pod_name)>>,
     <<"service", gui_service_name(pod_name)>>,
     <<"middleware", gui_middleware_name(pod_name)>>}

Proxied == req.op = "agent_gui_proxy"

C7_ProxyResolvedPodOnly ==
    Proxied =>
        /\ req.scan # {} =>
              \E o \in req.scan :
                  /\ \A q \in req.scan : q.data.start <= o.data.start
                  /\ resp.kind = "redirect"
                  /\ resp.to = S_agents_gui \o <<"/">> \o o.name \o <<"/">> \o req.subpath
        /\ \A i \in 1..Len(calls) :
              calls[i].kind \in ExposureKinds =>
                  /\ <<calls[i].kind, calls[i].name>> \in ExposureNames(req.resolved)
                  /\ \E k \in req.had : k[1] = "pod" /\ k[3] = req.resolved
        /\ req.sent # NoUpstream =>
              /\ req.resolved = req.pod_name
              /\ req.sent.path = proxy_path(req.resolved, req.subpath)
              /\ <<H_X_Forwarded_Prefix, _gui_path_for_pod(cfg, req.resolved)>>
                     \in {req.sent.headers[i] : i \in 1..Len(req.sent.headers)}

\* The requested pod is gone and the scan finds the old pod and the new one:
\* the redirect names the new one.
C7_Witness ==
    /\ Proxied
    /\ req.pod_name = PodName(0)
    /\ Cardinality({o.data.start : o \in req.scan}) = 2
    /\ resp.kind = "redirect"
    /\ resp.to = S_agents_gui \o <<"/">> \o PodName(2) \o <<"/", "s">>

(***************************************************************************)
(* SpecDetail: pod detail, restart and delete, for a pod whose exposure    *)
(* set is there in full, in part or not at all.                            *)
(***************************************************************************)
ExposureSet(c, os, pod, owner) ==
    _ensure_agent_gui_resources(Ctx(os, 0), c, pod.ns, pod, owner).objs \ os

DetailInit ==
    /\ cfg \in GuiSettings
    /\ \E now \in 1..MaxClock, crds \in CrdSets :
       \E base \in {LaunchedObjs(cfg, UserAnn, now)
                    \cup {PodObj(UserNs(UserAnn).namespace, PodName(1),
                                 UserAnn.username, 1, 1, 1)}
                    \cup {CrdObj(g) : g \in crds}} :
       \E pod \in {o \in base : o.kind = "pod"} :
       \E kept \in SUBSET ExposureSet(cfg, base, pod, UserAnn.username) :
          /\ cfg.ingress_class # "traefik" => crds = {}
          /\ objs = base \cup kept
          /\ clock = now
    /\ req = NoReq
    /\ calls = <<>>
    /\ resp = NoResp
    /\ saved_keys = {<<UserAnn.username, 1>>}
    /\ pod_gen = 1
    /\ NsIdle
    /\ TmIdle
    /\ PxIdle

DetailNext == AgentDetail \/ Respond \/ CtlSpawnPod \/ CtlStartPod \/ CtlRetirePod

SpecDetail == DetailInit /\ [][DetailNext]_vars

(***************************************************************************)
(* C5: in the delete action the pod is deleted only after the whole        *)
(* exposure cleanup for that pod, in the pod's namespace, has come back    *)
(* with nothing worse than not-found; after a cleanup that raised, no pod  *)
(* delete is issued and the pods are all still there.                      *)
(***************************************************************************)
DeleteRequested ==
    req.op = "agent_detail" /\ req.action = "delete" /\ req.user.account_type = "human"

PodDeletes == {i \in 1..Len(calls) : calls[i].verb = "delete" /\ calls[i].kind = "pod"}

Cleanups ==
    {i \in 1..Len(calls) : calls[i].verb = "delete" /\ calls[i].kind \in ExposureKinds}

Tolerated == {"200", "404"}

CleanupTargets(pod_name) ==
    {<<"ingress", "", gui_ingress_name(pod_name)>>,
     <<"endpoints", "", gui_service_name(pod_name)>>,
     <<"service", "", gui_service_name(pod_name)>>}
    \cup (IF cfg.ingress_class = "traefik"
          THEN {<<"middleware", MiddlewareGroups[g], gui_middleware_name(pod_name)>> :
                    g \in 1..Len(MiddlewareGroups)}
          ELSE {})

CleanedBefore(j) ==
    {<<calls[i].kind, calls[i].group, calls[i].name>> :
        i \in {k \in Cleanups : /\ k < j
                                /\ calls[k].status \in Tolerated
                                /\ calls[k].ns = calls[j].ns}}

C5_CleanupBeforePodDelete ==
    DeleteRequested =>
        /\ \A j \in PodDeletes :
              /\ calls[j].name = req.pod_name
              /\ CleanedBefore(j) = CleanupTargets(req.pod_name)
              /\ \A i \in Cleanups : i < j /\ calls[i].status \in Tolerated
        /\ (\E i \in Cleanups : calls[i].status \notin Tolerated) =>
              /\ PodDeletes = {}
              /\ \A k \in req.had : k[1] = "pod" => k \in Keys3(objs)

\* A delete that removed the pod's exposure objects and then the pod.
C5_Witness ==
    /\ DeleteRequested
    /\ \E i \in Cleanups : calls[i].status = "200"
    /\ \E j \in PodDeletes : calls[j].status = "200"
    /\ <<"pod", req.ns, req.pod_name>> \in req.had \ Keys3(objs)

(***************************************************************************)
(* C6: the exposure cleanup goes through all sub-resources whichever of    *)
(* them are absent: when none of its deletes answers worse than not-found  *)
(* it has tried them all, none of the pod's exposure objects is left and   *)
(* the delete action goes on to the pod; a delete that answers anything    *)
(* else ends the request with that error.                                  *)
(***************************************************************************)
FailedCleanups == {i \in Cleanups : calls[i].status \notin Tolerated}

ExposureLeft(ns, pod_name) ==
    {o \in objs : o.ns = ns /\ <<o.kind, o.group, o.name>> \in CleanupTargets(pod_name)}

C6_CleanupTolerant ==
    (DeleteRequested /\ Cleanups # {}) =>
        /\ FailedCleanups = {} =>
              /\ {<<calls[i].kind, calls[i].group, calls[i].name>> : i \in Cleanups}
                     = CleanupTargets(req.pod_name)
              /\ \A i \in Cleanups : ExposureLeft(calls[i].ns, req.pod_name) = {}
              /\ PodDeletes # {}
        /\ \A i \in FailedCleanups :
              /\ i = Len(calls)
              /\ resp.kind = "render"
              /\ resp.error_message = calls[i].status

\* Part of the exposure set was gone already, the rest is deleted.
C6_Witness ==
    /\ DeleteRequested
    /\ FailedCleanups = {}
    /\ \E i \in Cleanups : calls[i].status = "404"
    /\ \E i \in Cleanups : calls[i].status = "200"
    /\ PodDeletes # {}

(***************************************************************************)
(* C3: a launch issues its calls in the order namespace, image-pull        *)
(* credential, runtime secret, Deployment; with a forced namespace it      *)
(* makes no call on a namespace object at all; and a write of one step is  *)
(* issued only if every step before it returned without error.             *)
(***************************************************************************)
StepOf(call) ==
    IF call.kind = "namespace" THEN 1
    ELSE IF call.kind = "secret" /\ call.name = S_dockerhub_secret THEN 2
    ELSE IF call.kind = "secret" /\ call.name = S_openai_secret THEN 3
    ELSE IF call.kind = "deployment" THEN 4
    ELSE 5

IsWrite(call) == call.verb \in {"create", "patch", "delete"}

Launched == req.op = "agent_manager" /\ req.steps # <<>>

LaunchSucceeded ==
    /\ Launched
    /\ resp.kind = "redirect"
    /\ resp.to = "identity:agent_manager"

C3_LaunchOrder ==
    Launched =>
        /\ \A i, j \in 1..Len(calls) : i < j => StepOf(calls[i]) <= StepOf(calls[j])
        /\ req.forced => \A i \in 1..Len(calls) : calls[i].kind # "namespace"
        /\ \A j \in 1..Len(calls) :
              (IsWrite(calls[j]) /\ StepOf(calls[j]) <= Len(LaunchSteps)) =>
                  \A k \in 1..(StepOf(calls[j]) - 1) :
                      req.steps[k] \in {"ok", "skipped"}

\* A first launch in a namespace of the user's own: four creates, in order.
C3_Witness ==
    /\ LaunchSucceeded
    /\ ~req.forced
    /\ {StepOf(calls[i]) : i \in {j \in 1..Len(calls) : calls[j].verb = "create"}}
           = 1..Len(LaunchSteps)

(***************************************************************************)
(* C4: after a successful launch the user's namespace exists once and      *)
(* holds one runtime secret and one Deployment; what the launch found      *)
(* present it patched, and created nothing in its place.                   *)
(***************************************************************************)
OfKind(kind, ns) == {o \in objs : o.kind = kind /\ o.ns = ns}

Had(kind, ns, name) == <<kind, ns, name>> \in req.had

CallsOn(verb, kind, name) ==
    {i \in 1..Len(calls) :
        calls[i].verb = verb /\ calls[i].kind = kind /\ calls[i].name = name}

PatchedInPlace(kind, ns, name) ==
    Had(kind, ns, name) =>
        /\ CallsOn("create", kind, name) = {}
        /\ CallsOn("patch", kind, name) # {}

C4_LaunchNoDuplicates ==
    LaunchSucceeded =>
        /\ Cardinality({o \in OfKind("namespace", <<>>) : o.name = req.ns}) = 1
        /\ Cardinality({o \in OfKind("secret", req.ns) : o.data.type = "Opaque"}) = 1
        /\ Cardinality(OfKind("deployment", req.ns)) = 1
        /\ Had("namespace", <<>>, req.ns) => CallsOn("create", "namespace", req.ns) = {}
        /\ PatchedInPlace("secret", req.ns, S_openai_secret)
        /\ PatchedInPlace("deployment", req.ns, S_openclaw_agent)

\* A repeated launch: secret and Deployment were there and are patched.
C4_Witness ==
    /\ LaunchSucceeded
    /\ Had("secret", req.ns, S_openai_secret)
    /\ Had("deployment", req.ns, S_openclaw_agent)
    /\ CallsOn("patch", "deployment", S_openclaw_agent) # {}
    /\ \A i \in 1..Len(calls) : calls[i].verb # "create"

(***************************************************************************)
(* SpecLoc: _rewrite_location_header applied to the Location values an     *)
(* upstream can send: paths and URLs, under the pod's internal root, under *)
(* the external prefix or elsewhere, with and without query and fragment.  *)
(***************************************************************************)
LocSettings ==
    {Settings(<<>>, "", <<>>),
     [Settings(<<>>, "", <<>>) EXCEPT !.path_prefix = <<"g", "/">>]}

LocPodNames == {PodName(g) : g \in 1..MaxPodGen}

LocSchemes == {<<>>, S_https, <<"H", "T", "T", "P", "S">>}

LocNetlocs == {<<>>, <<"x">>}

LocTails == {<<>>, <<"/">>, <<"/", "a">>, <<"7", "/", "a">>}

LocBases(c, pod_name) ==
    {<<>>, S_openclaw_agent_root \o pod_name,
     RStrip(_gui_path_for_pod(c, pod_name), {"/"}), <<"/", "b">>}

LocQueries == {<<>>, <<"?">>, <<"?", "q">>}

LocFragments == {<<>>, <<"#", "f">>}

LocText(scheme, netloc, path, query, fragment) ==
    (IF scheme # <<>> THEN scheme \o <<":">> ELSE <<>>)
    \o (IF netloc # <<>> THEN <<"/", "/">> \o netloc ELSE <<>>)
    \o path \o query \o fragment

LocInit ==
    /\ cfg \in LocSettings
    /\ \E pod_name \in LocPodNames, scheme \in LocSchemes, netloc \in LocNetlocs,
          tail \in LocTails, query \in LocQueries, fragment \in LocFragments :
        \E base \in LocBases(cfg, pod_name) :
          px_in = [fn |-> "location", pod_name |-> pod_name,
                   prefix |-> _gui_path_for_pod(cfg, pod_name),
                   scheme |-> scheme, netloc |-> netloc, path |-> base \o tail,
                   query |-> query, fragment |-> fragment,
                   location |-> LocText(scheme, netloc, base \o tail, query, fragment)]
    /\ px_out = <<>>
    /\ px_pc = "call"
    /\ objs = {}
    /\ req = NoReq
    /\ calls = <<>>
    /\ resp = NoResp
    /\ saved_keys = {}
    /\ clock = 0
    /\ pod_gen = 0
    /\ NsIdle
    /\ TmIdle

RewriteLocation ==
    /\ px_pc = "call"
    /\ px_in.fn = "location"
    /\ px_out' = _rewrite_location_header(px_in.location, px_in.prefix, px_in.pod_name)
    /\ px_pc' = "done"
    /\ UNCHANGED <<px_in, clVars, nsVars, tmVars>>

LocNext == RewriteLocation

SpecLoc == LocInit /\ [][LocNext]_vars

(***************************************************************************)
(* C8: a Location that is an absolute path under the pod's internal root   *)
(* comes back with the root replaced by the external prefix and the rest   *)
(* untouched; a Location that is an absolute URL whose path is under the   *)
(* root comes back with the same scheme (schemes compare without regard to *)
(* case) and host, and the path substituted in the same way.               *)
(***************************************************************************)
LocRoot == S_openclaw_agent_root \o px_in.pod_name

LocStem == RStrip(px_in.prefix, {"/"})

C8_LocationRewrite ==
    (px_pc = "done" /\ px_in.fn = "location" /\ StartsWith(px_in.path, LocRoot)) =>
        /\ (px_in.scheme = <<>> /\ px_in.netloc = <<>>) =>
              px_out = LocStem \o Drop(px_in.location, Len(LocRoot))
        /\ (px_in.scheme # <<>> /\ px_in.netloc # <<>>) =>
              /\ urlsplit(px_out).scheme = LowerStr(px_in.scheme)
              /\ urlsplit(px_out).netloc = px_in.netloc
              /\ urlsplit(px_out).path = LocStem \o Drop(px_in.path, Len(LocRoot))
              /\ urlsplit(px_out).query = Drop(px_in.query, 1)
              /\ urlsplit(px_out).fragment = Drop(px_in.fragment, 1)

\* https://x/openclaw-agent-p1/a under /agents/gui/p1/.
C8_Witness ==
    /\ px_pc = "done"
    /\ px_in.fn = "location"
    /\ px_in.location = S_https \o <<":", "/", "/", "x">> \o S_openclaw_agent_root
                        \o PodName(1) \o <<"/", "a">>
    /\ px_out = S_https \o <<":", "/", "/", "x">> \o S_agents_gui \o <<"/">>
                \o PodName(1) \o <<"/", "a">>

(***************************************************************************)
(* SpecHdr: the two header filters of the reverse proxy, applied to the    *)
(* header lists a client or an upstream can send, names in either case.    *)
(***************************************************************************)
HdrNames ==
    LET lower == hop_by_hop \cup {H_host, H_location, H_accept}
    IN  lower \cup {UpperStr(n) : n \in lower}

HdrValue(name) ==
    IF LowerStr(name) = H_location
    THEN S_openclaw_agent_root \o PodName(1) \o <<"/", "a">>
    ELSE <<"v">>

\* Header lists of up to MaxHeaders headers, no name twice.
HdrLists ==
    UNION {{[i \in 1..n |-> <<f[i], HdrValue(f[i])>>] :
                f \in {g \in [1..n -> HdrNames] :
                          \A i, j \in 1..n : i # j => g[i] # g[j]}} :
           n \in 0..MaxHeaders}

HdrSettings ==
    {Settings(<<>>, "", <<>>),
     [Settings(<<>>, "", <<>>) EXCEPT !.ingress_host = <<"i">>]}

HdrInit ==
    /\ cfg \in HdrSettings
    /\ \E headers \in HdrLists :
          px_in = [fn |-> "headers", pod_name |-> PodName(1), headers |-> headers,
                   request |-> [headers |-> headers, secure |-> TRUE,
                                host |-> <<"w">>, remote_addr |-> <<"1">>]]
    /\ px_out = <<>>
    /\ px_pc = "call"
    /\ objs = {}
    /\ req = NoReq
    /\ calls = <<>>
    /\ resp = NoResp
    /\ saved_keys = {}
    /\ clock = 0
    /\ pod_gen = 0
    /\ NsIdle
    /\ TmIdle

\* The client's headers, on their way to the upstream.
ProxyRequestHeaders ==
    /\ px_pc = "call"
    /\ px_in.fn = "headers"
    /\ px_out' = [direction |-> "request",
                  headers |-> upstream_request_headers(cfg, px_in.request,
                                                       px_in.pod_name)]
    /\ px_pc' = "done"
    /\ UNCHANGED <<px_in, clVars, nsVars, tmVars>>

\* The upstream's headers, on their way to the client.
ProxyResponseHeaders ==
    /\ px_pc = "call"
    /\ px_in.fn = "headers"
    /\ px_out' = [direction |-> "response",
                  headers |-> response_headers(cfg, px_in.headers, px_in.pod_name)]
    /\ px_pc' = "done"
    /\ UNCHANGED <<px_in, clVars, nsVars, tmVars>>

HdrNext == ProxyRequestHeaders \/ ProxyResponseHeaders

SpecHdr == HdrInit /\ [][HdrNext]_vars

(***************************************************************************)
(* C9: whatever the client and the upstream send, neither the headers      *)
(* handed to the upstream request nor the headers of the response returned *)
(* to the client hold a hop-by-hop name, in any case.                      *)
(***************************************************************************)
C9_NoHopByHop ==
    (px_pc = "done" /\ px_in.fn = "headers") =>
        \A i \in 1..Len(px_out.headers) :
            LowerStr(px_out.headers[i][1]) \notin hop_by_hop

\* CONNECTION is dropped on the way up, ACCEPT is passed on.
C9_Witness ==
    /\ px_pc = "done"
    /\ px_in.fn = "headers"
    /\ px_out.direction = "request"
    /\ px_in.headers = <<<<UpperStr(H_connection), <<"v">>>>,
                         <<UpperStr(H_accept), <<"v">>>>>>
    /\ UpperStr(H_accept) \in Keys(px_out.headers)
    /\ UpperStr(H_connection) \notin Keys(px_out.headers)

(***************************************************************************)
(* identity/consumers.py: PodTerminalConsumer.  The exec stream is the     *)
(* kubernetes client's websocket: its calls return on an open stream, and  *)
(* on a closed one update, peek and read return without data.              *)
(***************************************************************************)
MaxOutput == 2
MaxInput == 1

Anonymous == [username |-> <<>>, id |-> 0, staff |-> FALSE, account_type |-> "anonymous"]

is_authenticated(user) == user.account_type # "anonymous"

\* stream.stream(...) of one shell: "open", "closed" (a stream that is not
\* open is returned) or "raise".
ExecOutcomes == {"open", "closed", "raise"}

_open_stream_sh_first(bash, sh) ==
    IF sh = "open" THEN "/bin/sh"
    ELSE IF bash = "open" THEN "/bin/bash"
    ELSE "None"

_open_stream(bash, sh) ==
    IF bash = "open" THEN "/bin/bash"
    ELSE IF sh = "open" THEN "/bin/sh"
    ELSE "None"

Rejected(ctx, handle) ==
    [ctx |-> ctx, exec_stream |-> handle, reader_thread |-> handle,
     command |-> "None", accepted |-> FALSE]

connect(ctx, c, user, pod_name, bash, sh) ==
    IF ~is_authenticated(user) \/ user.account_type # "human"
    THEN Rejected(ctx, "unset")
    ELSE Bind(ApiRead(ctx, "pod", "",
                      resolve_agent_namespace(user.username, user.id, c.env_ns).namespace,
                      pod_name), LAMBDA r :
         IF r.exc # "ok"
         THEN Rejected(r, "None")
         ELSE Bind(_open_stream(bash, sh), LAMBDA command :
                 IF command = "None"
                 THEN Rejected(r, "None")
                 ELSE [ctx |-> r, exec_stream |-> "stream",
                       reader_thread |-> "while_handle",
                       command |-> command, accepted |-> TRUE]))

\* exec_stream.update(timeout=1): what has arrived is buffered; the close of
\* the pod's end is seen once nothing is left to read.
update(stream) ==
    IF ~stream.open THEN stream
    ELSE IF stream.wire_out + stream.wire_err > 0
    THEN [stream EXCEPT !.out = @ + stream.wire_out, !.err = @ + stream.wire_err,
                        !.wire_out = 0, !.wire_err = 0]
    ELSE IF stream.peer_closed THEN [stream EXCEPT !.open = FALSE]
    ELSE stream

\* The positions of _read_loop at which self.exec_stream is dereferenced.
Derefs == {"while_open", "update", "peek_stdout", "read_stdout", "peek_stderr",
           "read_stderr"}

ReaderAt(pc, stream, locals, emitted) ==
    [pc |-> pc, ws |-> stream, locals |-> locals, emitted |-> emitted]

\* One statement of _read_loop.  "while_handle" and "while_open" are the two
\* reads of self.exec_stream in the loop test; a method called on None
\* raises AttributeError, which ends the thread ("crashed").
_read_loop(pc, handle, stream, locals) ==
    IF pc = "while_handle"
    THEN ReaderAt(IF handle = "None" THEN "exited" ELSE "while_open", stream, locals, 0)
    ELSE IF pc \in Derefs /\ handle = "None"
    THEN ReaderAt("crashed", stream, locals, 0)
    ELSE CASE pc = "while_open" ->
                ReaderAt(IF stream.open THEN "update" ELSE "exited", stream, locals, 0)
           [] pc = "update" ->
                ReaderAt("peek_stdout", update(stream), NoLocals, 0)
           [] pc = "peek_stdout" ->
                ReaderAt(IF stream.out > 0 THEN "read_stdout" ELSE "peek_stderr",
                         stream, locals, 0)
           [] pc = "read_stdout" ->
                ReaderAt("peek_stderr", [stream EXCEPT !.out = 0],
                         [locals EXCEPT !.stdout = stream.out], 0)
           [] pc = "peek_stderr" ->
                ReaderAt(IF stream.err > 0 THEN "read_stderr" ELSE "emit",
                         stream, locals, 0)
           [] pc = "read_stderr" ->
                ReaderAt("emit", [stream EXCEPT !.err = 0],
                         [locals EXCEPT !.stderr = stream.err], 0)
           [] pc = "emit" ->
                ReaderAt("while_handle", stream, locals,
                         (IF locals.stdout > 0 THEN 1 ELSE 0)
                            + (IF locals.stderr > 0 THEN 1 ELSE 0))

receive(handle, stream, text_data) ==
    IF handle = "None" \/ ~stream.open THEN stream
    ELSE [stream EXCEPT !.stdin = Append(@, text_data)]

DisconnectAt(pc, handle, stream) == [pc |-> pc, exec_stream |-> handle, ws |-> stream]

disconnect_without_close(pc, handle, stream) ==
    CASE pc = "disc_handle" ->
            DisconnectAt(IF handle = "unset" THEN "raised"
                         ELSE IF handle = "None" THEN "disc_clear" ELSE "disc_open",
                         handle, stream)
      [] pc = "disc_open" ->
            DisconnectAt(IF stream.open THEN "disc_write" ELSE "disc_clear", handle, stream)
      [] pc = "disc_write" ->
            DisconnectAt("disc_clear", handle, [stream EXCEPT !.stdin = Append(@, "exit")])
      [] pc = "disc_close" ->
            DisconnectAt("disc_clear", handle, stream)
      [] pc = "disc_clear" ->
            DisconnectAt("done", "None", stream)

\* One statement of disconnect: the two halves of its test, write_stdin,
\* close, and the clearing of the handle.
disconnect(pc, handle, stream) ==
    CASE pc = "disc_handle" ->
            DisconnectAt(IF handle = "unset" THEN "raised"
                         ELSE IF handle = "None" THEN "disc_clear" ELSE "disc_open",
                         handle, stream)
      [] pc = "disc_open" ->
            DisconnectAt(IF stream.open THEN "disc_write" ELSE "disc_clear", handle, stream)
      [] pc = "disc_write" ->
            DisconnectAt("disc_close", handle, [stream EXCEPT !.stdin = Append(@, "exit")])
      [] pc = "disc_close" ->
            DisconnectAt("disc_clear", handle, [stream EXCEPT !.open = FALSE])
      [] pc = "disc_clear" ->
            DisconnectAt("done", "None", stream)

(***************************************************************************)
(* Specification of the terminal bridge: one connection, its reader        *)
(* thread, the client and the shell in the pod.                            *)
(***************************************************************************)
TermUsers == {UserAnn, UserBot, Anonymous}

TermInit ==
    /\ cfg = Settings(<<>>, "", <<>>)
    /\ \E pods \in SUBSET {PodObj(normalize_namespace(UserAnn.username, UserAnn.id),
                                  PodName(1), UserAnn.username, 1, 1, 1)} :
          objs = {NamespaceObj(normalize_namespace(UserAnn.username, UserAnn.id))}
                    \cup pods
    /\ req = NoReq
    /\ calls = <<>>
    /\ resp = NoResp
    /\ saved_keys = {}
    /\ clock = 0
    /\ pod_gen = 1
    /\ NsIdle
    /\ PxIdle
    /\ tm_conn = [NoConn EXCEPT !.state = "connecting"]
    /\ tm_pc = "idle"
    /\ exec_stream = "unset"
    /\ reader_thread = "unset"
    /\ ws = NoStream
    /\ shell = NoShell
    /\ rd = NoLocals
    /\ tm_sent = 0

TermRest == <<nsVars, pxVars, cfg, objs, req, resp, saved_keys, clock, pod_gen>>

Connect ==
    /\ tm_conn.state = "connecting"
    /\ \E user \in TermUsers, bash \in ExecOutcomes, sh \in ExecOutcomes, fault \in 0..1 :
       \E out \in {connect(Ctx(objs, fault), cfg, user, PodName(1), bash, sh)} :
          /\ fault <= Len(out.ctx.calls)
          /\ tm_conn' = [tm_conn EXCEPT !.state = IF out.accepted THEN "accepted"
                                                  ELSE "closed",
                                        !.user = user.username,
                                        !.kind = user.account_type,
                                        !.read = IF out.ctx.calls = <<>> THEN "none"
                                                 ELSE out.ctx.exc,
                                        !.bash = bash,
                                        !.sh = sh,
                                        !.accepted = out.accepted]
          /\ exec_stream' = out.exec_stream
          /\ reader_thread' = out.reader_thread
          /\ ws' = IF out.accepted
                   THEN [NoStream EXCEPT !.open = TRUE, !.command = out.command]
                   ELSE NoStream
          /\ shell' = IF out.accepted THEN [alive |-> TRUE, left |-> MaxOutput]
                      ELSE NoShell
          /\ calls' = out.ctx.calls
    /\ UNCHANGED <<tm_pc, rd, tm_sent, TermRest>>

\* The reader thread runs one statement.
ReadLoop ==
    /\ reader_thread \notin {"unset", "None", "exited", "crashed"}
    /\ \E out \in {_read_loop(reader_thread, exec_stream, ws, rd)} :
          /\ reader_thread' = out.pc
          /\ ws' = out.ws
          /\ rd' = out.locals
          /\ tm_sent' = tm_sent + out.emitted
    /\ UNCHANGED <<tm_conn, tm_pc, exec_stream, shell, calls, TermRest>>

\* A frame of the client reaches receive.
Receive ==
    /\ tm_conn.state = "accepted"
    /\ tm_pc = "idle"
    /\ tm_conn.received < MaxInput
    /\ ws' = receive(exec_stream, ws, "data")
    /\ tm_conn' = [tm_conn EXCEPT !.received = @ + 1]
    /\ UNCHANGED <<tm_pc, exec_stream, reader_thread, shell, rd, tm_sent, calls, TermRest>>

\* The websocket closes (the client leaves, or connect closed it): the
\* consumer's thread enters disconnect.
WebsocketDisconnect ==
    /\ tm_conn.state \in {"accepted", "closed"}
    /\ tm_pc = "idle"
    /\ tm_pc' = "disc_handle"
    /\ tm_conn' = [tm_conn EXCEPT !.state = "closed"]
    /\ UNCHANGED <<exec_stream, reader_thread, ws, shell, rd, tm_sent, calls, TermRest>>

\* The consumer's thread runs one statement of disconnect.
Disconnect ==
    /\ tm_pc \notin {"idle", "done", "raised"}
    /\ \E out \in {disconnect(tm_pc, exec_stream, ws)} :
          /\ tm_pc' = out.pc
          /\ exec_stream' = out.exec_stream
          /\ ws' = out.ws
    /\ UNCHANGED <<tm_conn, reader_thread, shell, rd, tm_sent, calls, TermRest>>

\* The shell writes a chunk to its stdout or its stderr.
ShellOutput ==
    /\ shell.alive
    /\ shell.left > 0
    /\ ws.open
    /\ \E channel \in {"out", "err"} :
          ws' = IF channel = "out" THEN [ws EXCEPT !.wire_out = @ + 1]
                ELSE [ws EXCEPT !.wire_err = @ + 1]
    /\ shell' = [shell EXCEPT !.left = @ - 1]
    /\ UNCHANGED <<tm_conn, tm_pc, exec_stream, reader_thread, rd, tm_sent, calls, TermRest>>

\* The shell exits and the pod's end of the stream closes.
ShellExit ==
    /\ shell.alive
    /\ shell' = [shell EXCEPT !.alive = FALSE]
    /\ ws' = [ws EXCEPT !.peer_closed = TRUE]
    /\ UNCHANGED <<tm_conn, tm_pc, exec_stream, reader_thread, rd, tm_sent, calls, TermRest>>

TermNext ==
    Connect \/ ReadLoop \/ Receive \/ WebsocketDisconnect \/ Disconnect
        \/ ShellOutput \/ ShellExit

SpecTerm == TermInit /\ [][TermNext]_vars

\* Both threads are scheduled: a started reader thread and a handler that
\* has entered disconnect keep running.
SpecTermFair == SpecTerm /\ WF_vars(ReadLoop) /\ WF_vars(Disconnect)

ReaderTerminated == reader_thread \in {"exited", "crashed"}

\* C10: after a client disconnect on an accepted terminal connection, the
\* exec stream is closed and its handle cleared once disconnect has
\* returned, and from the moment disconnect is entered the handler returns
\* and the reader thread ends by itself (it leaves the loop, or it dies of
\* the AttributeError a call on the cleared handle raises).
C10_DisconnectReleasesStream ==
    /\ [](tm_conn.accepted /\ tm_pc = "done" => exec_stream = "None" /\ ~ws.open)
    /\ (tm_conn.accepted /\ tm_pc = "disc_handle")
          ~> (tm_pc = "done" /\ ReaderTerminated)

\* Disconnect found the stream open, wrote the exit command and closed it,
\* and the reader thread, which was inside the loop, has left it.
C10_Witness ==
    /\ tm_conn.accepted
    /\ tm_pc = "done"
    /\ exec_stream = "None"
    /\ ~ws.open
    /\ ~ws.peer_closed
    /\ "exit" \in {ws.stdin[i] : i \in 1..Len(ws.stdin)}
    /\ reader_thread = "exited"
    /\ tm_sent > 0

\* C11: a terminal connection is accepted only if the caller is
\* authenticated and human, the pod was read and an exec stream is open,
\* opened with bash when bash opens and with sh only when bash did not; in
\* every other case the connection is closed, was never accepted, and no
\* reader thread was started.
C11_AcceptOnlyWithStream ==
    tm_conn.state # "connecting" =>
        /\ tm_conn.accepted <=>
              /\ tm_conn.kind = "human"
              /\ tm_conn.read = "ok"
              /\ "open" \in {tm_conn.bash, tm_conn.sh}
        /\ tm_conn.accepted =>
              /\ exec_stream = "stream" \/ tm_pc # "idle"
              /\ ws.command = (IF tm_conn.bash = "open" THEN "/bin/bash" ELSE "/bin/sh")
        /\ ~tm_conn.accepted =>
              /\ tm_conn.state = "closed"
              /\ reader_thread \in {"unset", "None"}
              /\ ~ws.open

\* bash did not open, sh did: the connection is accepted on the sh stream
\* and the reader thread runs.
C11_Witness ==
    /\ tm_conn.state = "accepted"
    /\ tm_conn.bash = "raise"
    /\ tm_conn.sh = "open"
    /\ ws.command = "/bin/sh"
    /\ ws.open
    /\ reader_thread = "update"

(***************************************************************************)
(* The failures of the reverse proxy.                                      *)
(***************************************************************************)
\* The second of two lists of one namespace is _pod_debug_snapshot, which
\* reports its own failure in the text of the 404.
SnapshotCall(i) ==
    /\ i > 1
    /\ calls[i].verb = "list"
    /\ calls[i - 1].verb = "list"
    /\ calls[i].ns # <<>>
    /\ calls[i].ns = calls[i - 1].ns

\* A Traefik API group that is not served answers 404, and the middleware is
\* then written under the next group.
GroupFallback(i) ==
    /\ calls[i].kind = "middleware"
    /\ calls[i].status = "404"
    /\ \E j \in (i + 1)..Len(calls) :
          /\ calls[j].kind = "middleware"
          /\ calls[j].verb \in {"create", "patch"}
          /\ calls[j].status \in OkStatus

\* A call of pod resolution or of exposure setup that the cluster answered
\* with an error; a 404 of a read is the cue to scan or to create.
ClusterError(i) ==
    /\ calls[i].status \notin OkStatus
    /\ ~(calls[i].verb = "read" /\ calls[i].status = "404")
    /\ ~GroupFallback(i)
    /\ ~SnapshotCall(i)

ProxyFailsSafe ==
    (Proxied /\ \E i \in 1..Len(calls) : ClusterError(i)) =>
        /\ resp.kind = "http"
        /\ resp.status = 502
        /\ req.sent = NoUpstream

ProxyTransportFailure ==
    (Proxied /\ req.sent # NoUpstream /\ req.upstream.kind = "URLError") =>
        resp.kind = "http" /\ resp.status = 502

UpstreamErrorAnswered == Proxied /\ req.sent # NoUpstream /\ req.upstream.kind = "HTTPError"

LaunchAborted ==
    /\ Launched
    /\ \E k \in 1..Len(req.steps) : req.steps[k] \notin {"ok", "skipped", "not reached"}

Written(call) ==
    /\ call.verb \in {"create", "patch"}
    /\ call.status \in OkStatus

\* What a launch that returned leaves in the user's namespace.
DesiredLaunchState ==
    /\ NsExists(objs, req.ns)
    /\ \E o \in Find(objs, "secret", "", req.ns, S_openai_secret) :
          /\ o.data.type = "Opaque"
          /\ <<req.user.username, o.data.data.OPENAI_API_KEY>> \in saved_keys
          /\ req.key # 0 => o.data.data.OPENAI_API_KEY = req.key
    /\ \E o \in Find(objs, "deployment", "", req.ns, S_openclaw_agent) :
          o.data = deployment_body(req.user, clock)

\* C13: a launch that aborts with a cluster error leaves in place what its
\* earlier steps wrote and what was there before (no rollback), and a launch
\* that returns without an error, also after an aborted one, ends with the
\* namespace, the runtime secret and the Deployment present as desired.
C13_PartialLaunchHeals ==
    /\ LaunchAborted =>
          /\ req.had \subseteq Keys3(objs)
          /\ \A i \in 1..Len(calls) :
                /\ calls[i].verb # "delete"
                /\ Written(calls[i]) =>
                      <<calls[i].kind, calls[i].ns, calls[i].name>> \in Keys3(objs)
    /\ LaunchSucceeded => DesiredLaunchState

\* The launch after one that aborted at the Deployment step: the runtime
\* secret is there, the Deployment is not, and the launch creates it.
C13_Witness ==
    /\ LaunchSucceeded
    /\ Had("secret", req.ns, S_openai_secret)
    /\ ~Had("deployment", req.ns, S_openclaw_agent)
    /\ CallsOn("create", "deployment", S_openclaw_agent) # {}
    /\ DesiredLaunchState

(***************************************************************************)
(* The restart action.                                                     *)
(***************************************************************************)
RestartRequested ==
    req.op = "agent_detail" /\ req.action = "restart" /\ req.user.account_type = "human"

RestartSucceeded ==
    /\ resp.kind = "redirect"
    /\ resp.to = "identity:agent_detail"
    /\ resp.message = "success: Restart initiated."

\* C14: a restart whose pod is already absent (the delete answers
\* not-found) ends as a success, as a restart that deleted the pod does.
C14_RestartAbsentPodSucceeds ==
    (RestartRequested /\ calls # <<>> /\ calls[Len(calls)].status \in OkStatus \cup {"404"})
        => RestartSucceeded

(***************************************************************************)
(* The calls of one upsert.                                                *)
(***************************************************************************)
Upserted == req.op = "upsert"

UpCreates == {i \in 1..Len(calls) : calls[i].verb = "create"}

UpFailures == {i \in 1..Len(calls) : calls[i].status \notin OkStatus \cup {"404"}}

\* C15: an upsert patches the resource when its read finds it, creates it
\* only after a not-found (404), and re-raises any other error of the read,
\* the patch or the create to the caller without issuing a create.
C15_UpsertErrorPaths ==
    Upserted =>
        /\ calls[1].verb = "read"
        /\ calls[1].status = "200" => (Len(calls) >= 2 /\ calls[2].verb = "patch")
        /\ \A i \in UpCreates :
              /\ i > 1
              /\ i = Len(calls)
              /\ calls[i - 1].verb \in {"read", "patch"}
              /\ calls[i - 1].status = "404"
              /\ resp.exc = (IF calls[i].status \in OkStatus THEN "ok" ELSE calls[i].status)
        /\ \A i \in 1..Len(calls) :
              (calls[i].verb \in {"read", "patch"} /\ calls[i].status = "404")
                  => (i + 1) \in UpCreates
        /\ \A i \in UpFailures :
              /\ i = Len(calls)
              /\ resp.exc = calls[i].status
              /\ calls[i].verb \in {"read", "patch"} => UpCreates = {}

\* The read finds the resource and the patch fails: the error is re-raised
\* and nothing is created.
C15_Witness ==
    /\ Upserted
    /\ Len(calls) = 2
    /\ calls[1].status = "200"
    /\ calls[2].verb = "patch"
    /\ calls[2].status = "500"
    /\ resp.exc = "500"

(***************************************************************************)
(* SpecNames: two pods with different names in one namespace, and the      *)
(* exposure of each ensured in turn.  The names are valid pod names (RFC    *)
(* 1123 subdomains): short ones, ones that differ in a dot or in a run of  *)
(* hyphens, and two long ones that differ in their last character only.    *)
(***************************************************************************)
MaxStem == 53
MaxLaunches == 3

LongPodName(last) == Repeat("x", MaxStem) \o <<last>>

NmPodNames ==
    {PodName(1), PodName(2), <<"p", "-", "1">>, <<"p", "-", "-", "1">>,
     <<"p", ".", "1">>, LongPodName("1"), LongPodName("2")}

NmInit ==
    /\ cfg \in {Settings(<<>>, "", <<>>), Settings(<<>>, "traefik", <<"x">>)}
    /\ \E a, b \in NmPodNames :
          /\ a # b
          /\ objs = {NamespaceObj(UpNs), CrdObj(MiddlewareGroups[1]),
                     PodObj(UpNs, a, UserAnn.username, 1, 1, 1),
                     PodObj(UpNs, b, UserAnn.username, 2, 1, 1)}
    /\ req = NoReq
    /\ calls = <<>>
    /\ resp = NoResp
    /\ saved_keys = {}
    /\ clock = 0
    /\ pod_gen = 0
    /\ NsIdle
    /\ TmIdle
    /\ PxIdle

NmPods == {o \in objs : o.kind = "pod"}

NmEnsure ==
    \E pod \in NmPods :
    \E out \in {_ensure_agent_gui_resources(Ctx(objs, 0), cfg, pod.ns, pod,
                                             UserAnn.username)} :
        /\ req' = [op |-> "ensure", pod_name |-> pod.name, before |-> objs]
        /\ calls' = out.calls
        /\ objs' = out.objs
        /\ resp' = [kind |-> "returned", exc |-> out.exc]
        /\ UNCHANGED <<cfg, saved_keys, clock, pod_gen, fnVars>>

NmNext == NmEnsure

SpecNames == NmInit /\ [][NmNext]_vars

\* An ensure for one pod leaves the exposure objects of the other pods alone.
ExposureNeverOverwritten ==
    req.op = "ensure" =>
        \A o \in req.before :
            (o.kind \in ExposureKinds /\ o.data.labels.pod # req.pod_name)
                => o \in objs

\* C16: within one namespace two different pod names never yield the same
\* GUI service, ingress or middleware name, and an ensure for one pod leaves
\* every exposure object of another live pod as it was.
C16_ExposureNamesDistinct ==
    req.op = "ensure" =>
        /\ \A o, q \in NmPods :
              o.name # q.name =>
                  /\ gui_service_name(o.name) # gui_service_name(q.name)
                  /\ gui_ingress_name(o.name) # gui_ingress_name(q.name)
                  /\ gui_middleware_name(o.name) # gui_middleware_name(q.name)
        /\ ExposureNeverOverwritten

(***************************************************************************)
(* The shell exits while the client stays connected.                       *)
(***************************************************************************)
\* The reader thread has left its loop on the closed stream and the client
\* has not disconnected: nothing of the session is left to run.
PodSideClosed ==
    /\ tm_conn.accepted
    /\ ws.peer_closed
    /\ reader_thread = "exited"
    /\ tm_pc = "idle"

\* C17: when the exec stream is closed from the pod side, the session is
\* torn down without any client action: once the reader loop has terminated,
\* the stream handle is cleared and the client connection is closed.
C17_PodCloseTearsDown ==
    PodSideClosed => (exec_stream = "None" /\ tm_conn.state = "closed")

(***************************************************************************)
(* SpecRace: two requests upsert the same resource at the same time.  Each *)
(* call of an upsert helper is one step; the API server serves the calls   *)
(* of the two requests in any order.  req.pc[t] is the call request t      *)
(* makes next ("done": the helper returned, "raised": it raised req.exc[t]).*)
(***************************************************************************)
Racers == 1..2

RaceKinds == {"service", "endpoints", "ingress"}

RaceName(kind, pod_name) ==
    IF kind = "ingress" THEN gui_ingress_name(pod_name) ELSE gui_service_name(pod_name)

RaceBody(kind, pod) ==
    IF kind = "service" THEN service_body(pod, UserAnn.username)
    ELSE IF kind = "endpoints" THEN endpoints_body(UpNs, pod, UserAnn.username)
    ELSE ingress_body(cfg, UpNs, pod, UserAnn.username)

\* One call of the helper's body: the read, then the patch or (after a 404
\* of either) the create.
upsert_step(pc, ctx, kind, ns, name, body) ==
    IF pc = "read"
    THEN Bind(ApiRead(ctx, kind, "", ns, name), LAMBDA r :
            [ctx |-> r,
             pc |-> IF r.exc = "ok" THEN "patch"
                    ELSE IF r.exc = "404" THEN "create" ELSE "raised"])
    ELSE IF pc = "patch"
    THEN Bind(ApiPatch(ctx, kind, "", ns, name, body), LAMBDA r :
            [ctx |-> r,
             pc |-> IF r.exc = "ok" THEN "done"
                    ELSE IF r.exc = "404" THEN "create" ELSE "raised"])
    ELSE Bind(ApiCreate(ctx, kind, "", ns, name, body), LAMBDA r :
            [ctx |-> r, pc |-> IF r.exc = "ok" THEN "done" ELSE "raised"])

RaceInit ==
    /\ cfg \in {Settings(<<>>, "", <<"x">>), Settings(<<>>, "traefik", <<>>)}
    /\ \E kind \in RaceKinds, present \in BOOLEAN, ip \in [Racers -> 1..MaxIp] :
          /\ req = [op |-> "race", kind |-> kind,
                    name |-> RaceName(kind, PodName(1)),
                    ip |-> ip,
                    pc |-> [t \in Racers |-> "read"],
                    exc |-> [t \in Racers |-> "ok"]]
          /\ objs = {NamespaceObj(UpNs)}
                    \cup (IF present
                          THEN {Obj(kind, "", UpNs, RaceName(kind, PodName(1)),
                                    RaceBody(kind, PodObj(UpNs, PodName(1),
                                                          UserAnn.username, 1, 1, 1)))}
                          ELSE {})
    /\ calls = <<>>
    /\ resp = NoResp
    /\ saved_keys = {}
    /\ clock = 0
    /\ pod_gen = 1
    /\ NsIdle
    /\ TmIdle
    /\ PxIdle

RaceCall(t, pc) ==
    /\ req.pc[t] = pc
    /\ \E out \in {upsert_step(pc, Ctx(objs, 0), req.kind, UpNs, req.name,
                                 RaceBody(req.kind,
                                          PodObj(UpNs, PodName(1), UserAnn.username,
                                                 req.ip[t], 1, 1)))} :
          /\ req' = [req EXCEPT !.pc[t] = out.pc, !.exc[t] = out.ctx.exc]
          /\ objs' = out.ctx.objs
          /\ calls' = calls \o out.ctx.calls
    /\ UNCHANGED <<cfg, resp, saved_keys, clock, pod_gen, fnVars>>

RaceRead ==
    /\ req.op = "race"
    /\ \E t \in Racers : RaceCall(t, "read")

RacePatch ==
    /\ req.op = "race"
    /\ \E t \in Racers : RaceCall(t, "patch")

RaceCreate ==
    /\ req.op = "race"
    /\ \E t \in Racers : RaceCall(t, "create")

RaceNext == RaceRead \/ RacePatch \/ RaceCreate

SpecRace == RaceInit /\ [][RaceNext]_vars

RaceOver == req.op = "race" /\ \A t \in Racers : req.pc[t] \in {"done", "raised"}

\* C18: two concurrent upserts of the same resource both complete without
\* error in every interleaving of their read, patch and create calls, and
\* leave the resource in the desired state (the body of one of the two).
C18_ConcurrentUpsertsComplete ==
    RaceOver =>
        /\ \A t \in Racers : req.pc[t] = "done"
        /\ \E o \in Find(objs, req.kind, "", UpNs, req.name) :
           \E t \in Racers :
              o.data = RaceBody(req.kind, PodObj(UpNs, PodName(1), UserAnn.username,
                                                 req.ip[t], 1, 1))

(***************************************************************************)
(* SpecEnsure: _ensure_agent_gui_resources for a pod that has no IP yet or *)
(* has one, over a cluster that holds any part of the pod's exposure set   *)
(* from an earlier request, with a failure of the API server on any of the *)
(* first calls.                                                            *)
(***************************************************************************)
\* A pod that has not started has neither an IP nor a start time.
EnPod(ip) ==
    PodObj(UpNs, PodName(1), UserAnn.username, ip, IF ip = 0 THEN 0 ELSE 1, 1)

EnInit ==
    /\ cfg \in GuiSettings
    /\ \E ip \in 0..MaxIp :
       \E base \in {{NamespaceObj(UpNs), CrdObj(MiddlewareGroups[1])}} :
       \E kept \in SUBSET ExposureSet(cfg, base, EnPod(1), UserAnn.username) :
          objs = base \cup kept \cup {EnPod(ip)}
    /\ req = NoReq
    /\ calls = <<>>
    /\ resp = NoResp
    /\ saved_keys = {}
    /\ clock = 0
    /\ pod_gen = 1
    /\ NsIdle
    /\ TmIdle
    /\ PxIdle

EnEnsure ==
    \E pod \in {o \in objs : o.kind = "pod"}, fault \in 0..MaxGuiFault :
    \E out \in {_ensure_agent_gui_resources(Ctx(objs, fault), cfg, pod.ns, pod,
                                             UserAnn.username)} :
        /\ fault <= Len(out.calls)
        /\ req' = [op |-> "ensure", pod |-> pod, fault |-> fault, before |-> objs]
        /\ calls' = out.calls
        /\ objs' = out.objs
        /\ resp' = [kind |-> "returned", exc |-> out.exc]
        /\ UNCHANGED <<cfg, saved_keys, clock, pod_gen, fnVars>>

\* The kubelet starts the pod: it gets its IP.
EnPodStarts ==
    /\ \E pod \in {o \in objs : o.kind = "pod" /\ o.data.ip = 0}, ip \in 1..MaxIp :
          objs' = (objs \ {pod}) \cup {EnPod(ip)}
    /\ req' = NoReq
    /\ calls' = <<>>
    /\ resp' = NoResp
    /\ UNCHANGED <<cfg, saved_keys, clock, pod_gen, fnVars>>

EnNext == EnEnsure \/ EnPodStarts

SpecEnsure == EnInit /\ [][EnNext]_vars

EnsuredWithoutIp == req.op = "ensure" /\ req.pod.data.ip = 0

NotService(os) == {o \in os : o.kind # "service"}

\* C19 as amended: when the resolved pod has no IP yet, ensure-exposure
\* first upserts the Service and then fails, with the no-IP error when that
\* upsert succeeded and with the upsert's failure otherwise, before it
\* reads or writes anything else: Endpoints, Ingress and middleware are
\* left exactly as they were.
C19_NoIpStopsAfterService ==
    EnsuredWithoutIp =>
        /\ calls # <<>>
        /\ \A i \in 1..Len(calls) :
              /\ calls[i].kind = "service"
              /\ calls[i].name = gui_service_name(req.pod.name)
        /\ resp.exc = (IF calls[Len(calls)].status \in OkStatus THEN "ValueError"
                       ELSE "RuntimeError")
        /\ resp.exc = "ValueError" =>
              \E o \in Find(objs, "service", "", req.pod.ns, gui_service_name(req.pod.name)) :
                  o.data = Merge(o.data, service_body(req.pod, UserAnn.username))
        /\ NotService(objs) = NotService(req.before)

\* C19 as stated: with no IP, ensure-exposure fails with the no-IP error
\* before writing anything.
C19_AsStated ==
    (EnsuredWithoutIp /\ req.fault = 0) =>
        /\ resp.exc = "ValueError"
        /\ objs = req.before

\* No IP and no Service yet: the Service is created, then the no-IP error.
C19_Witness ==
    /\ EnsuredWithoutIp
    /\ resp.exc = "ValueError"
    /\ Len(calls) = 2
    /\ calls[2].verb = "create"
    /\ calls[2].status = "201"
    /\ objs # req.before
    /\ \E o \in req.before : o.kind = "endpoints"

(***************************************************************************)
(* What precedes a request sent upstream.                                  *)
(***************************************************************************)
Forwarded == Proxied /\ req.sent # NoUpstream

\* The calls of the request that wrote the object, with success.
WrittenBy(kind, name) ==
    {i \in 1..Len(calls) :
        /\ calls[i].kind = kind
        /\ calls[i].name = name
        /\ calls[i].verb \in {"create", "patch"}
        /\ calls[i].status \in OkStatus}

ScanFoundNothing ==
    /\ req.op = "agent_detail"
    /\ allow_cross_namespace(req.user)
    /\ req.action \in {"", "delete"}
    /\ Len(calls) = 2
    /\ calls[1].verb = "read" /\ calls[1].kind = "pod" /\ calls[1].status = "404"
    /\ calls[2].verb = "list" /\ calls[2].kind = "pod" /\ calls[2].status = "200"
    /\ ~\E o \in objs : o.kind = "pod" /\ o.name = req.pod_name

PodNotFoundBranch ==
    /\ resp.kind = "redirect"
    /\ resp.to = "identity:agent_manager"
    /\ resp.message = "error: Pod not found."

\* C21: for an elevated caller, when the pod name exists neither in the
\* expected namespace nor in any other, pod resolution ends in the
\* not-found outcome and the view takes its pod-not-found branch, not its
\* generic cluster-error branch.
C21_ScanMissEndsNotFound ==
    ScanFoundNothing => PodNotFoundBranch

(***************************************************************************)
(* identity/views.py: agent_gui (the redirect to a pod's GUI).             *)
(***************************************************************************)
\* The empty host stands for None.
_gui_url_for_pod(c, request, pod_name) ==
    Bind(_gui_host_for_pod(c, pod_name), LAMBDA host :
        IF host = <<>> THEN _gui_path_for_pod(c, pod_name)
        ELSE (IF request.secure THEN S_https ELSE S_http)
                 \o <<":", "/", "/">> \o host \o <<"/">>)

GuiPage(x, error_message) ==
    [ctx |-> x, pods |-> {},
     resp |-> [kind |-> "render", template |-> "agent_gui",
               error_message |-> error_message]]

\* The page of the pod that was not found carries _pod_debug_snapshot,
\* which lists the pods once more and keeps a failure to itself.
GuiNotFound(x, ns, owner) ==
    Bind(ApiListPods(Raise(x, "ok"), ns, LabelSelector(owner)), LAMBDA snapshot :
        GuiPage(Raise(snapshot, "ok"), "Pod not found."))

\* An exception that reaches the handlers of the outer try block.
GuiFailed(x, ns, owner) ==
    IF x.exc = "404" THEN GuiNotFound(x, ns, owner) ELSE GuiPage(x, x.exc)

\* The pod the view redirects to: the named pod, or after its 404 the
\* newest pod of the owner.
gui_target(ctx, user, ns, pod_name) ==
    Bind(_resolve_pod(ctx, pod_name, ns, allow_cross_namespace(user)), LAMBDA r :
    IF r.ctx.exc = "ok"
    THEN [ctx |-> r.ctx, pods |-> r.pods, namespace |-> r.namespace, resp |-> NoResp]
    ELSE IF r.ctx.exc # "404" THEN GuiPage(r.ctx, r.ctx.exc)
    ELSE
    Bind(ApiListPods(Raise(r.ctx, "ok"), ns, LabelSelector(user.username)), LAMBDA l :
    IF l.exc # "ok" THEN GuiFailed(l, ns, user.username)
    ELSE IF l.got = {} THEN GuiNotFound(l, ns, user.username)
    ELSE [ctx |-> l, pods |-> {newest_pod(Items(l.got))}, namespace |-> ns,
          resp |-> NoResp]))

gui_redirect(t, c, user, request) ==
    Bind(CHOOSE o \in t.pods : TRUE, LAMBDA pod :
    Bind(_ensure_agent_gui_resources(t.ctx, c, t.namespace, pod, user.username),
         LAMBDA e :
    IF e.exc # "ok"
    THEN [GuiFailed(e, t.namespace, user.username) EXCEPT !.pods = {pod}]
    ELSE [ctx |-> e, pods |-> {pod},
          resp |-> [kind |-> "redirect",
                    to |-> _gui_url_for_pod(c, request, pod.name)]]))

agent_gui(ctx, c, user, request, pod_name) ==
    IF user.account_type # "human"
    THEN [ctx |-> ctx, pods |-> {},
          resp |-> [kind |-> "redirect", to |-> "identity:profile"]]
    ELSE
    Bind(gui_target(ctx, user,
                    resolve_agent_namespace(user.username, user.id, c.env_ns).namespace,
                    pod_name), LAMBDA t :
        IF t.pods = {} THEN t ELSE gui_redirect(t, c, user, request))

(***************************************************************************)
(* SpecRedirect: agent_gui under every combination of host suffix, fixed   *)
(* ingress host and ingress class, over plain and secure requests.         *)
(***************************************************************************)
RdSettings ==
    {[Settings(<<>>, class, suffix) EXCEPT !.ingress_host = host] :
        class \in {"", "traefik"}, suffix \in {<<>>, <<"x">>},
        host \in {<<>>, <<"h">>}}

RdInit ==
    /\ cfg \in RdSettings
    /\ \E pods \in SUBSET {PodObj(UserNs(UserAnn).namespace, PodName(1),
                                  UserAnn.username, 1, 1, 1)} :
          objs = LaunchedObjs(cfg, UserAnn, 1) \cup pods
                    \cup {CrdObj(MiddlewareGroups[1])}
    /\ req = NoReq
    /\ calls = <<>>
    /\ resp = NoResp
    /\ saved_keys = {<<UserAnn.username, 1>>}
    /\ clock = 1
    /\ pod_gen = 1
    /\ NsIdle
    /\ TmIdle
    /\ PxIdle

AgentGui ==
    /\ req = NoReq
    /\ \E user \in Users, pod_name \in PodNames, secure \in BOOLEAN,
          fault \in 0..MaxGuiFault :
       \E out \in {agent_gui(Ctx(objs, fault), cfg, user,
                             [ProxyRequest EXCEPT !.secure = secure], pod_name)} :
           /\ fault <= Len(out.ctx.calls)
           /\ req' = [op |-> "agent_gui", user |-> user, pod_name |-> pod_name,
                      secure |-> secure, host |-> ProxyRequest.host, fault |-> fault,
                      pods |-> out.pods]
           /\ calls' = out.ctx.calls
           /\ objs' = out.ctx.objs
           /\ resp' = out.resp
           /\ UNCHANGED <<cfg, saved_keys, clock, pod_gen, fnVars>>

RdNext == AgentGui \/ Respond

SpecRedirect == RdInit /\ [][RdNext]_vars

\* The browser follows the redirect: the host and the path it asks for (a
\* redirect to a path stays on the host of the request).
Followed ==
    [host |-> IF urlsplit(resp.to).netloc = <<>> THEN req.host
              ELSE urlsplit(resp.to).netloc,
     path |-> urlsplit(resp.to).path]

\* networking.k8s.io/v1: a rule without host takes every host; a Prefix path
\* matches by path elements, and so does the pattern <base>(/|$)(.*).
IngressRoutes(ingress, host, path) ==
    LET base == IF ingress.data.path_type = "Prefix" THEN ingress.data.path
                ELSE Take(ingress.data.path, Len(ingress.data.path) - 1)
    IN  /\ ingress.data.host \in {<<>>, host}
        /\ \/ base = <<"/">>
           \/ path = base
           \/ StartsWith(path, base \o <<"/">>)

GuiRedirected ==
    /\ req.op = "agent_gui"
    /\ resp.kind = "redirect"
    /\ resp.to # "identity:profile"

\* C22: the GUI redirect is scheme://<pod>.<suffix>/ when a host suffix is
\* configured and otherwise the path <prefix>/<pod>/, and it points at a
\* host and path that the pod's Ingress routes.
C22_RedirectFollowsIngress ==
    GuiRedirected =>
        \A pod \in req.pods :
            /\ resp.to =
                  (IF subdomain_mode(cfg)
                   THEN (IF req.secure THEN S_https ELSE S_http) \o <<":", "/", "/">>
                            \o pod.name \o <<".">> \o Strip(cfg.host_suffix, Whitespace)
                            \o <<"/">>
                   ELSE _gui_path_prefix(cfg) \o <<"/">> \o pod.name \o <<"/">>)
            /\ \E ingress \in Find(objs, "ingress", "", pod.ns, gui_ingress_name(pod.name)) :
                  IngressRoutes(ingress, Followed.host, Followed.path)

(***************************************************************************)
(* The image-pull credential step of a launch.                             *)
(***************************************************************************)
PullSecretCreates ==
    {i \in 1..Len(calls) :
        /\ calls[i].verb = "create"
        /\ calls[i].kind = "secret"
        /\ calls[i].name = S_dockerhub_secret}

\* C23: the image-pull credential step is best-effort: it never aborts a
\* launch, and it creates the secret in the user's namespace only when the
\* secret is missing there and the source secret is readable.
C23_PullSecretBestEffort ==
    Launched =>
        /\ req.steps[2] \in {"ok", "not reached"}
        /\ \A i \in PullSecretCreates :
              /\ calls[i].ns = req.ns
              /\ ~Had("secret", req.ns, S_dockerhub_secret)
              /\ Had("secret", S_default, S_dockerhub_secret)

(***************************************************************************)
(* SpecTenants: one user has launched an agent, and any user opens the     *)
(* agent manager.  No namespace is forced.  The usernames differ in case,  *)
(* in a dot or in a letter; one has no ASCII letter at all, and one is the *)
(* fallback name of that user.                                             *)
(***************************************************************************)
TnNames ==
    <<<<"a", "b">>, <<"a", ".", "b">>, <<"A", "b">>, <<"a", "c">>, <<"CJK">>,
      <<"u", "s", "e", "r", "-", "5">>>>

TnUser(i) ==
    [username |-> TnNames[i], id |-> i, staff |-> FALSE, account_type |-> "human"]

TnUsers == {TnUser(i) : i \in 1..Len(TnNames)}

TnNamespace(user) == resolve_agent_namespace(user.username, user.id, <<>>).namespace

TnInit ==
    /\ cfg = Settings(<<>>, "", <<>>)
    /\ \E owner \in TnUsers :
          /\ objs = LaunchedObjs(cfg, owner, 1)
                       \cup {PodObj(TnNamespace(owner), PodName(1), owner.username, 1, 1, 1)}
          /\ saved_keys = {<<owner.username, 1>>}
    /\ req = NoReq
    /\ calls = <<>>
    /\ resp = NoResp
    /\ clock = 1
    /\ pod_gen = 1
    /\ NsIdle
    /\ TmIdle
    /\ PxIdle

TnManager ==
    /\ req = NoReq
    /\ \E user \in TnUsers, method \in {"GET", "POST"}, key \in 0..MaxKey :
       \E out \in {agent_manager(Ctx(objs, 0), cfg, user, method, key, saved_keys,
                                 clock + 1)} :
           /\ method = "GET" => key = 0
           /\ clock < MaxClock
           /\ req' = [op |-> "agent_manager", user |-> user, method |-> method,
                      key |-> key, ns |-> TnNamespace(user), before |-> objs]
           /\ calls' = out.ctx.calls
           /\ objs' = out.ctx.objs
           /\ resp' = out.resp
           /\ saved_keys' = out.saved
           /\ clock' = IF method = "POST" THEN clock + 1 ELSE clock
           /\ UNCHANGED <<cfg, pod_gen, fnVars>>

TnNext == TnManager \/ Respond

SpecTenants == TnInit /\ [][TnNext]_vars

\* C24: with no forced override, two users with different usernames and
\* different ids never resolve to the same namespace, and the pod list of
\* one user never shows a pod of another.
C24_TenantsIsolated ==
    (req.op = "agent_manager" /\ resp.kind = "render") =>
        /\ \A u \in TnUsers :
              (u.username # req.user.username /\ u.id # req.user.id)
                  => TnNamespace(u) # req.ns
        /\ \A o \in objs :
              (o.kind = "pod" /\ o.name \in resp.agents)
                  => o.data.labels.owner = req.user.username

(***************************************************************************)
(* SpecShared: AGENT_NAMESPACE names one namespace for all users; two      *)
(* users launch with their own keys, in any order, and a launch may meet a *)
(* failure of the API server.                                              *)
(***************************************************************************)
ShUsers == {UserAnn, UserBob}

ShInit ==
    /\ cfg = Settings(SharedNs, "", <<>>)
    /\ objs = {NamespaceObj(S_default), NamespaceObj(SharedNs)}
    /\ req = NoReq
    /\ calls = <<>>
    /\ resp = NoResp
    /\ saved_keys = {}
    /\ clock = 0
    /\ pod_gen = 0
    /\ NsIdle
    /\ TmIdle
    /\ PxIdle

\* A user posts the launch form with the user's own key.
ShLaunch ==
    /\ req = NoReq
    /\ clock < MaxLaunches
    /\ \E user \in ShUsers, fault \in 0..MaxFault :
       \E out \in {agent_manager(Ctx(objs, fault), cfg, user, "POST", user.id,
                                 saved_keys, clock + 1)} :
           /\ fault <= Len(out.ctx.calls)
           /\ req' = [op |-> "agent_manager", user |-> user, method |-> "POST",
                      key |-> user.id, fault |-> fault, ns |-> UserNs(user).namespace,
                      steps |-> out.steps, before |-> objs]
           /\ calls' = out.ctx.calls
           /\ objs' = out.ctx.objs
           /\ resp' = out.resp
           /\ saved_keys' = out.saved
           /\ clock' = clock + 1
           /\ UNCHANGED <<cfg, pod_gen, fnVars>>

ShNext == ShLaunch \/ Respond

SpecShared == ShInit /\ [][ShNext]_vars

\* The runtime secrets and Deployments that launches of other users wrote.
WrittenByOthers ==
    {o \in req.before :
        \/ /\ o.kind = "secret"
           /\ o.name = S_openai_secret
           /\ o.data.data.OPENAI_API_KEY # req.user.id
        \/ /\ o.kind = "deployment"
           /\ o.data.labels.owner # req.user.username}

\* C25: a launch by one user never changes the runtime secret or the
\* Deployment that another user's launch wrote, also when all users share
\* one forced namespace.
C25_LaunchLeavesOthersAlone ==
    req.op = "agent_manager" => \A o \in WrittenByOthers : o \in objs

(***************************************************************************)
(* Exposure sets and the pods they were made for.                          *)
(***************************************************************************)
Orphaned ==
    {o \in objs :
        /\ o.kind \in {"service", "endpoints", "ingress"}
        /\ ~\E pod \in objs : /\ pod.kind = "pod"
                                /\ pod.ns = o.ns
                                /\ pod.name = o.data.labels.pod}

\* C26: after any sequence of GUI access, restart and delete actions, with
\* the Deployment controller replacing deleted pods under new names, every
\* GUI Service, Endpoints and Ingress object that exists belongs to a pod
\* that still exists.
C26_NoOrphanedExposure ==
    Orphaned = {}

(***************************************************************************)
(* The reader thread against disconnect.                                   *)
(***************************************************************************)
\* The positions of _read_loop at which update, peek or read is called.
StreamCalls == Derefs \ {"while_open"}

\* disconnect has closed the stream (it wrote the exit command and is past
\* close) or has cleared the handle.
Released ==
    \/ exec_stream = "None"
    \/ /\ tm_pc \in {"disc_clear", "done"}
       /\ "exit" \in {ws.stdin[i] : i \in 1..Len(ws.stdin)}

\* C27: in every interleaving of the reader thread with disconnect, the
\* reader loop never calls update, peek or read on a stream handle that
\* disconnect has already closed or cleared.
C27_ReaderNeverUsesReleasedStream ==
    [][(reader_thread \in StreamCalls /\ reader_thread' # reader_thread)
          => ~Released]_vars

\* C28: disconnect completes without error in every connection state,
\* including after connect rejected the caller before the stream handle was
\* ever initialised.
C28_DisconnectNeverRaises ==
    tm_pc # "raised"

(***************************************************************************)
(* The Location rewrite applied to its own output.                         *)
(***************************************************************************)
\* The Location's path is the external prefix or lies below it.
UnderPrefix ==
    \/ px_in.path = LocStem
    \/ StartsWith(px_in.path, LocStem \o <<"/">>)

\* C29: the Location rewrite is idempotent: applied to its own output with
\* the same prefix and pod name it returns that output unchanged, and a
\* Location already under the pod's external prefix, with or without a
\* trailing slash, is not prefixed again.
C29_LocationRewriteIdempotent ==
    (px_pc = "done" /\ px_in.fn = "location") =>
        /\ _rewrite_location_header(px_out, px_in.prefix, px_in.pod_name) = px_out
        /\ UnderPrefix => px_out = px_in.location

(***************************************************************************)
(* SpecDetailFair: the request returns, and the Deployment controller,     *)
(* which runs whatever the requests do, gets its turn between them.        *)
(***************************************************************************)
SpecDetailFair == SpecDetail /\ WF_vars(Respond) /\ SF_vars(CtlSpawnPod)

\* No namespace override is set in SpecDetail: each user has their own.
AgentNamespaces == {normalize_namespace(user.username, user.id) : user \in Users}

DeleteSucceeded(ns) ==
    /\ DeleteRequested
    /\ \E j \in PodDeletes : calls[j].ns = ns /\ calls[j].status = "200"

\* A pod carrying the labels of the namespace's Deployment template.
OwnerPodIn(ns) ==
    \E d \in objs, pod \in objs :
        /\ d.kind = "deployment" /\ d.ns = ns
        /\ pod.kind = "pod" /\ pod.ns = ns
        /\ pod.data.labels = d.data.template.labels

DeploymentsKept ==
    /\ \A i \in 1..Len(calls) :
          calls[i].verb = "delete" => calls[i].kind \in {"pod"} \cup ExposureKinds
    /\ \A k \in req.had : k[1] = "deployment" => k \in Keys3(objs)

\* C30: the delete action deletes only the pod and its exposure objects and
\* never the Deployment, so with the Deployment controller getting its turn
\* a pod with the owner's labels is in the namespace again after every
\* successful delete (as long as the controller has a pod name left).
C30_DeleteLeavesDeployment ==
    /\ [](DeleteRequested => DeploymentsKept)
    /\ \A ns \in AgentNamespaces :
          (DeleteSucceeded(ns) /\ pod_gen < MaxPodGen) ~> OwnerPodIn(ns)

\* The delete has removed the owner's only pod: the Deployment is there and
\* no pod is.
C30_Witness ==
    /\ \E ns \in AgentNamespaces : DeleteSucceeded(ns) /\ ~OwnerPodIn(ns)
    /\ \E d \in objs : d.kind = "deployment"
    /\ pod_gen < MaxPodGen

====
